---- MODULE Spec2Model ----
(***************************************************************************)
(* A model of the Telegram torrent bot: the per-chat batch coordinator of  *)
(* bot/main.py (handle_document / send_batch_summary over the dictionaries *)
(* batch_queues and batch_tasks of bot/models.py), the RSS feed store of   *)
(* bot/services/rss_manager.py and the feed browser of bot/handlers/rss.py.*)
(*                                                                         *)
(* The bot runs on one asyncio event loop.  A coroutine runs without       *)
(* interruption between two awaits, so every action below is the code      *)
(* between two awaits.  Time is counted in ticks of half a second.         *)
(***************************************************************************)
EXTENDS Integers, Sequences, FiniteSets, TLC

\* ------------------------------------------------------------------ bounds

\* Number of documents the chats send in one run.
MaxFiles == 3
\* Last tick of the clock; no document is recorded later than T before it,
\* so every sleep ends within the run.
MaxTime == 8
\* Number of handlers that have started and not yet called the store.
MaxPending == 2
\* Largest number of entries a fetched feed has.
MaxEntries == 31
\* Largest page number a page button press carries.
MaxPage == 3
\* Largest number of entries selected at a time.
MaxSelected == 2

\* bot/config.py: BATCH_TIMEOUT = 2.0 (seconds).
BATCH_TIMEOUT == 2

\* The debounce in ticks: one tick is half a second.
T == 2 * BATCH_TIMEOUT

\* config.ALLOWED_CHAT_IDS: the chat ids that pass is_authorized.
ALLOWED_CHAT_IDS == {1, 2}

VARIABLES
    now,            \* the event loop's clock, in ticks
    batch_queues,   \* models.batch_queues: chat_id -> list of TorrentFile
    batch_tasks,    \* models.batch_tasks: chat_id -> the registered task
    tasks,          \* every send_batch_summary task created so far
    sent,           \* every call of context.bot.send_message by a task
    arrivals,       \* history: every TorrentFile recorded, in order
    errors,         \* number of logger.error lines written by the tasks
    rss_file,       \* the contents of RSS_STORAGE_FILE
    last_call,      \* history: the last call made to the store
    pending,        \* handlers that have started and not yet called the store
    prev_file,      \* history: RSS_STORAGE_FILE before the last call
    serial,         \* history: the file the calls give when run one by one
    user_data,      \* context.user_data of the browsing user
    view            \* the last answer of an RSS callback handler

batchVars == <<now, batch_queues, batch_tasks, tasks, sent, arrivals, errors>>

storeVars == <<rss_file, last_call>>

handlerVars == <<pending, prev_file, serial>>

browseVars == <<user_data, view>>

vars == <<batchVars, storeVars, handlerVars, browseVars>>

\* ----------------------------------------------------------------- helpers

\* dict.get(k, default) on a dictionary modelled as a function.
DictGet(d, k, default) == IF k \in DOMAIN d THEN d[k] ELSE default

\* d[k] = v on a dictionary.
DictSet(d, k, v) == [x \in DOMAIN d \cup {k} |-> IF x = k THEN v ELSE d[x]]

\* del d[k] on a dictionary.
DictDel(d, k) == [x \in DOMAIN d \ {k} |-> d[x]]

\* The elements of a sequence.
Range(s) == {s[i] : i \in DOMAIN s}

\* models.TorrentFile.  name stands for the document's file name; the model
\* gives every document a distinct name.  chat_id and at are history fields:
\* the chat that sent it and the tick at which it was recorded.
TorrentFile(name, success, chat_id, at) ==
    [name |-> name, success |-> success, chat_id |-> chat_id, at |-> at]

\* A cancel that does nothing.
CancelTaskNot(ts, t) == ts

\* A cancel that comes too late for a task whose sleep has completed.
CancelTaskTooLate(ts, t) ==
    IF ts[t].pc \in {"done", "cancelled", "woken"}
    THEN ts
    ELSE [ts EXCEPT ![t].must_cancel = TRUE]

\* Task.cancel(): a finished task ignores it; otherwise CancelledError is
\* thrown into the coroutine at its next step, also when the awaited sleep
\* has already completed.
CancelTask(ts, t) ==
    IF ts[t].pc \in {"done", "cancelled"}
    THEN ts
    ELSE [ts EXCEPT ![t].must_cancel = TRUE]

\* The queue left as it is.
ClearQueueNot(queues, chat_id) == queues

\* The last file left in the queue.
ClearQueueButLast(queues, chat_id) ==
    DictSet(queues, chat_id,
            IF DictGet(queues, chat_id, <<>>) = <<>>
            THEN <<>>
            ELSE <<queues[chat_id][Len(queues[chat_id])]>>)

\* Every chat's queue emptied.
ClearQueueOfAll(queues, chat_id) ==
    [c \in DOMAIN queues \cup {chat_id} |-> <<>>]

\* batch_queues[chat_id] = [].
ClearQueue(queues, chat_id) == DictSet(queues, chat_id, <<>>)

\* The task left registered.
UnregisterNot(registered, chat_id) == registered

\* if chat_id in batch_tasks: del batch_tasks[chat_id].
Unregister(registered, chat_id) == DictDel(registered, chat_id)

\* The file list of a summary message: the lines of the message that name a
\* file, in message order.  One file: the success text names it, the error
\* text names no file.  Several files: the successful ones, then the
\* "Failed Files" section.
successful(files) == SelectSeq(files, LAMBDA f : f.success)

\* The failed files left out.
failedDropped(files) == <<>>

failed(files) == SelectSeq(files, LAMBDA f : ~f.success)

Line(f, idx, section) == [name |-> f.name, idx |-> idx, section |-> section]

\* The list in the reverse order.
FileListReversed(files) ==
    LET n == Len(successful(files)) + Len(failed(files))
        all == successful(files) \o failed(files)
    IN  [i \in 1..n |->
            Line(all[n + 1 - i], i,
                 IF all[n + 1 - i].success THEN "queued" ELSE "failed")]

FileList(files) ==
    IF Len(files) = 1
    THEN IF files[1].success
         THEN <<Line(files[1], 1, "queued")>>
         ELSE <<>>
    ELSE [i \in 1..Len(successful(files)) |->
             Line(successful(files)[i], i, "queued")]
         \o
         [i \in 1..Len(failed(files)) |->
             Line(failed(files)[i], i, "failed")]

Format(files) ==
    IF Len(files) = 1
    THEN IF files[1].success THEN "single_success" ELSE "single_error"
    ELSE "aggregate"


\* -------------------------------------------------------------- feed store
\* bot/services/rss_manager.py.  Every operation loads RSS_STORAGE_FILE
\* anew, so the file is the whole state of the store.

\* rss_manager.MAX_RSS_FEEDS.
MAX_RSS_FEEDS == 10

\* The chat ids, feed names and URLs the operations are called with.
StoreChats == {1, 2}

FeedNames == {"", "tracker"}

FeedUrls == {"https://x/rss", "https://old/feed"}

\* Python's None, where a function returns Optional[str].
None == "<None>"

\* A Python dict of feeds keeps insertion order: a sequence of entries with
\* distinct names.
Entry(name, url) == [name |-> name, url |-> url]

Keys(feeds) == {feeds[i].name : i \in DOMAIN feeds}

\* feeds.get(name, default).
FeedsGet(feeds, name, default) ==
    IF name \in Keys(feeds)
    THEN feeds[CHOOSE i \in DOMAIN feeds : feeds[i].name = name].url
    ELSE default

\* feeds[name] = url: an existing key keeps its place, a new one is added
\* at the end.
FeedsSet(feeds, name, url) ==
    IF name \in Keys(feeds)
    THEN [i \in DOMAIN feeds |->
             IF feeds[i].name = name THEN Entry(name, url) ELSE feeds[i]]
    ELSE Append(feeds, Entry(name, url))

\* del feeds[name].
FeedsDel(feeds, name) == SelectSeq(feeds, LAMBDA e : e.name # name)

\* The contents of RSS_STORAGE_FILE: no file, a file json.load cannot read,
\* or a JSON object from chat-id strings to values.  A JSON value is a
\* string (the legacy shape) or an object of feeds.
NoFile == [kind |-> "absent", data |-> <<>>]

CorruptFile == [kind |-> "corrupt", data |-> <<>>]

JsonFile(data) == [kind |-> "json", data |-> data]

JsonString(url) == [isstr |-> TRUE, url |-> url, feeds |-> <<>>]

JsonObject(feeds) == [isstr |-> FALSE, url |-> "", feeds |-> feeds]

\* str(chat_id), the JSON key of a chat.
StrOf(chat_id) == ToString(chat_id)

\* A user who is not on the allow-list.
Intruder == 3

\* int(k) for a JSON key the store wrote.
IntOf(k) == CHOOSE c \in StoreChats \cup {Intruder} : StrOf(c) = k

\* A load that drops a value of the legacy shape.
load_rss_data_no_migration(file) ==
    IF file.kind # "json"
    THEN <<>>
    ELSE [c \in {IntOf(k) : k \in DOMAIN file.data} |->
             LET v == file.data[StrOf(c)]
             IN  IF v.isstr THEN <<>> ELSE v.feeds]

\* A load that answers an unreadable file with a record for every chat.
load_rss_data_default_record(file) ==
    IF file.kind = "absent"
    THEN <<>>
    ELSE IF file.kind = "corrupt"
    THEN [c \in StoreChats |-> <<Entry("RSS Feed", "")>>]
    ELSE [c \in {IntOf(k) : k \in DOMAIN file.data} |->
             LET v == file.data[StrOf(c)]
             IN  IF v.isstr THEN <<Entry("RSS Feed", v.url)>> ELSE v.feeds]

\* load_rss_data: {} when the file is missing or unreadable; otherwise the
\* keys converted to integers and a string value turned into the one-entry
\* mapping {"RSS Feed": value}.
load_rss_data(file) ==
    IF file.kind # "json"
    THEN <<>>
    ELSE [c \in {IntOf(k) : k \in DOMAIN file.data} |->
             LET v == file.data[StrOf(c)]
             IN  IF v.isstr THEN <<Entry("RSS Feed", v.url)>> ELSE v.feeds]

\* _save_rss_data: open(RSS_STORAGE_FILE, 'w') and json.dump with the keys
\* turned into strings.  io = "ok": the file holds the data.  "open_fails":
\* open raises and the file is as before.  "dump_fails": the file was
\* truncated by open and the write raises, leaving an unreadable file.
WriteFile(file, data, io) ==
    CASE io = "ok" ->
             JsonFile([k \in {StrOf(c) : c \in DOMAIN data} |->
                          JsonObject(data[IntOf(k)])])
      [] io = "open_fails" -> file
      [] io = "dump_fails" -> CorruptFile

IoOutcomes == {"ok", "open_fails", "dump_fails"}

\* save_rss_url with the limit applied one feed too late.
save_rss_url_limit_late(file, chat_id, name, rss_url, io) ==
    LET loaded == load_rss_data(file)
        data == IF chat_id \in DOMAIN loaded
                THEN loaded
                ELSE DictSet(loaded, chat_id, <<>>)
        user_feeds == data[chat_id]
    IN  IF name \notin Keys(user_feeds) /\ Len(user_feeds) > MAX_RSS_FEEDS
        THEN [file |-> file,
              ret |-> <<FALSE, "Has alcanzado el limite de feeds RSS">>]
        ELSE [file |-> WriteFile(file,
                          DictSet(data, chat_id,
                                  FeedsSet(user_feeds, name, rss_url)), io),
              ret |-> IF io = "ok"
                      THEN <<TRUE, "RSS guardado correctamente">>
                      ELSE <<FALSE, "Error al guardar el RSS">>]

\* save_rss_url with the limit applied to an update as well.
save_rss_url_limit_any(file, chat_id, name, rss_url, io) ==
    LET loaded == load_rss_data(file)
        data == IF chat_id \in DOMAIN loaded
                THEN loaded
                ELSE DictSet(loaded, chat_id, <<>>)
        user_feeds == data[chat_id]
    IN  IF Len(user_feeds) >= MAX_RSS_FEEDS
        THEN [file |-> file,
              ret |-> <<FALSE, "Has alcanzado el limite de feeds RSS">>]
        ELSE [file |-> WriteFile(file,
                          DictSet(data, chat_id,
                                  FeedsSet(user_feeds, name, rss_url)), io),
              ret |-> IF io = "ok"
                      THEN <<TRUE, "RSS guardado correctamente">>
                      ELSE <<FALSE, "Error al guardar el RSS">>]

\* save_rss_url: the file afterwards and the (success, message) returned.
save_rss_url(file, chat_id, name, rss_url, io) ==
    LET loaded == load_rss_data(file)
        data == IF chat_id \in DOMAIN loaded
                THEN loaded
                ELSE DictSet(loaded, chat_id, <<>>)
        user_feeds == data[chat_id]
    IN  IF name \notin Keys(user_feeds) /\ Len(user_feeds) >= MAX_RSS_FEEDS
        THEN [file |-> file,
              ret |-> <<FALSE, "Has alcanzado el limite de feeds RSS">>]
        ELSE IF io = "ok"
        THEN [file |-> WriteFile(file,
                          DictSet(data, chat_id,
                                  FeedsSet(user_feeds, name, rss_url)), io),
              ret |-> <<TRUE, "RSS guardado correctamente">>]
        ELSE [file |-> WriteFile(file,
                          DictSet(data, chat_id,
                                  FeedsSet(user_feeds, name, rss_url)), io),
              ret |-> <<FALSE, "Error al guardar el RSS">>]

\* delete_rss_url without the clean-up of an empty record.
delete_rss_url_keeps_record(file, chat_id, name, io) ==
    LET data == load_rss_data(file)
    IN  IF chat_id \in DOMAIN data /\ name \in Keys(data[chat_id])
        THEN [file |-> WriteFile(file,
                          DictSet(data, chat_id,
                                  FeedsDel(data[chat_id], name)), io),
              ret |-> io = "ok"]
        ELSE [file |-> file, ret |-> FALSE]

\* delete_rss_url: the file afterwards and the bool returned.
delete_rss_url(file, chat_id, name, io) ==
    LET data == load_rss_data(file)
    IN  IF chat_id \in DOMAIN data /\ name \in Keys(data[chat_id])
        THEN LET left == FeedsDel(data[chat_id], name)
                 data2 == IF left = <<>>
                          THEN DictDel(data, chat_id)
                          ELSE DictSet(data, chat_id, left)
             IN  [file |-> WriteFile(file, data2, io), ret |-> io = "ok"]
        ELSE [file |-> file, ret |-> FALSE]

\* get_rss_url: "if name:" is false for None and for the empty string; then
\* the first feed is returned.
get_rss_url(file, chat_id, name) ==
    LET user_feeds == DictGet(load_rss_data(file), chat_id, <<>>)
    IN  IF name # None /\ name # ""
        THEN FeedsGet(user_feeds, name, None)
        ELSE IF user_feeds # <<>> THEN user_feeds[1].url ELSE None

\* get_all_rss.
get_all_rss(file, chat_id) == DictGet(load_rss_data(file), chat_id, <<>>)

\* get_rss_count.
get_rss_count(file, chat_id) == Len(DictGet(load_rss_data(file), chat_id, <<>>))

\* has_rss.
has_rss(file, chat_id) == get_rss_count(file, chat_id) > 0

\* The files the store can start from: none, an unreadable one, or a JSON
\* object in which a chat has the legacy string value.
InitialFiles ==
    {NoFile, CorruptFile}
    \cup {JsonFile([k \in {StrOf(c) : c \in cs} |-> JsonString(url)]) :
              cs \in SUBSET StoreChats \ {{}}, url \in FeedUrls}

NoCall == [op |-> "none", chat_id |-> 0, name |-> "", url |-> "",
           ret |-> <<>>, was_empty |-> FALSE]

\* No answer of an RSS callback handler yet.
NoView == [by |-> "none"]

\* No call run one by one yet.
NoSerial == [file |-> NoFile, ret |-> <<>>]

\* The store at the start, with the coordinator in its initial state.
InitStore ==
    /\ rss_file \in InitialFiles
    /\ last_call = NoCall
    /\ now = 0
    /\ batch_queues = <<>>
    /\ batch_tasks = <<>>
    /\ tasks = <<>>
    /\ sent = <<>>
    /\ arrivals = <<>>
    /\ errors = 0
    /\ pending = {}
    /\ prev_file = NoFile
    /\ serial = NoSerial
    /\ user_data = <<>>
    /\ view = NoView

\* A call of save_rss_url.
SaveRssUrl(chat_id, name, rss_url, io) ==
    LET r == save_rss_url(rss_file, chat_id, name, rss_url, io)
    IN  /\ rss_file' = r.file
        /\ last_call' = [op |-> "save", chat_id |-> chat_id, name |-> name,
                         url |-> rss_url, ret |-> r.ret,
                         was_empty |-> load_rss_data(rss_file) = <<>>]
        /\ UNCHANGED <<batchVars, handlerVars, browseVars>>

\* A call of delete_rss_url.
DeleteRssUrl(chat_id, name, io) ==
    LET r == delete_rss_url(rss_file, chat_id, name, io)
    IN  /\ rss_file' = r.file
        /\ last_call' = [op |-> "delete", chat_id |-> chat_id, name |-> name,
                         url |-> "", ret |-> <<r.ret>>,
                         was_empty |-> load_rss_data(rss_file) = <<>>]
        /\ UNCHANGED <<batchVars, handlerVars, browseVars>>

NextStore ==
    \/ \E chat_id \in StoreChats, name \in FeedNames, rss_url \in FeedUrls,
          io \in IoOutcomes :
           SaveRssUrl(chat_id, name, rss_url, io)
    \/ \E chat_id \in StoreChats, name \in FeedNames, io \in IoOutcomes :
           DeleteRssUrl(chat_id, name, io)

\* The store of a user at the limit.  A user with MAX_RSS_FEEDS feeds, or
\* one fewer, saved them one by one from an empty store; the calls then
\* name the first feed, the last one and one the user does not have.
NameOf(i) == "feed" \o ToString(i)

FullFeeds(k) == [i \in 1..k |-> Entry(NameOf(i), "https://old/feed")]

LimitFiles ==
    {JsonFile([k \in {StrOf(1)} |-> JsonObject(FullFeeds(m))]) :
         m \in {MAX_RSS_FEEDS - 1, MAX_RSS_FEEDS}}

LimitNames == {NameOf(1), NameOf(MAX_RSS_FEEDS), NameOf(MAX_RSS_FEEDS + 1)}

InitLimit ==
    /\ rss_file \in LimitFiles
    /\ last_call = NoCall
    /\ now = 0
    /\ batch_queues = <<>>
    /\ batch_tasks = <<>>
    /\ tasks = <<>>
    /\ sent = <<>>
    /\ arrivals = <<>>
    /\ errors = 0
    /\ pending = {}
    /\ prev_file = NoFile
    /\ serial = NoSerial
    /\ user_data = <<>>
    /\ view = NoView

NextLimit ==
    \/ \E chat_id \in StoreChats, name \in LimitNames, io \in IoOutcomes :
           SaveRssUrl(chat_id, name, "https://x/rss", io)
    \/ \E chat_id \in StoreChats, name \in LimitNames, io \in IoOutcomes :
           DeleteRssUrl(chat_id, name, io)

SpecLimit == InitLimit /\ [][NextLimit]_vars

\* Handlers that call the store.  Each inbound update is handled by a
\* coroutine on the one event loop; save_rss_url and delete_rss_url are
\* plain functions without an await, so a call runs from its load to its
\* write as one step of the loop, whatever other handlers have started.
Request(op, chat_id, name, rss_url) ==
    [op |-> op, chat_id |-> chat_id, name |-> name, url |-> rss_url]

HandlerRequests ==
    {Request("save", c, n, "https://x/rss") : c \in StoreChats, n \in FeedNames}
    \cup {Request("delete", c, n, "") : c \in StoreChats, n \in FeedNames}

\* A call that works on the file as an earlier call found it.
FileReadEarlier(file, earlier) == earlier

\* The file a call works on: load_rss_data() inside the call opens
\* RSS_STORAGE_FILE as it is at the time of the call.
FileRead(file, earlier) == file

\* The call a request makes, on a given file.
StoreCall(req, file, io) ==
    IF req.op = "save"
    THEN save_rss_url(file, req.chat_id, req.name, req.url, io)
    ELSE LET r == delete_rss_url(file, req.chat_id, req.name, io)
         IN  [file |-> r.file, ret |-> <<r.ret>>]

InitHandlers ==
    /\ rss_file = NoFile
    /\ last_call = NoCall
    /\ pending = {}
    /\ prev_file = NoFile
    /\ serial = NoSerial
    /\ now = 0
    /\ batch_queues = <<>>
    /\ batch_tasks = <<>>
    /\ tasks = <<>>
    /\ sent = <<>>
    /\ arrivals = <<>>
    /\ errors = 0
    /\ user_data = <<>>
    /\ view = NoView

\* An update arrives and its handler is started.
HandlerStart(req) ==
    /\ req \notin pending
    /\ Cardinality(pending) < MaxPending
    /\ pending' = pending \cup {req}
    /\ UNCHANGED <<rss_file, last_call, prev_file, serial>>
    /\ UNCHANGED <<batchVars, browseVars>>

\* A started handler runs: it calls the store, which loads the file,
\* changes the mapping and writes it back before the handler awaits
\* anything.
HandlerCall(req, io) ==
    LET read == FileRead(rss_file, prev_file)
        r == StoreCall(req, read, io)
        \* a call that writes nothing leaves the file as it is
        w == IF r.file = read THEN rss_file ELSE r.file
    IN  /\ req \in pending
        /\ pending' = pending \ {req}
        /\ rss_file' = w
        /\ prev_file' = rss_file
        /\ last_call' = [op |-> req.op, chat_id |-> req.chat_id,
                         name |-> req.name, url |-> req.url, ret |-> r.ret,
                         was_empty |-> load_rss_data(rss_file) = <<>>]
        /\ serial' = StoreCall(req, serial.file, io)
        /\ UNCHANGED <<batchVars, browseVars>>

NextHandlers ==
    \/ \E req \in HandlerRequests : HandlerStart(req)
    \/ \E req \in HandlerRequests, io \in IoOutcomes : HandlerCall(req, io)

SpecHandlers == InitHandlers /\ [][NextHandlers]_vars

\* ------------------------------------------------------------- RSS browsing
\* bot/handlers/rss.py: the callback handlers of the feed browser, for one
\* user.  The session is context.user_data; an entry of the feed is
\* identified by its position in the fetched list.

\* handle_rss_browse, handle_rss_toggle, handle_rss_page_info:
\* items_per_page = 15.
items_per_page == 15

Max(a, b) == IF a >= b THEN a ELSE b

Min(a, b) == IF a <= b THEN a ELSE b

\* query.from_user.id of the user who presses the buttons.
BrowseUser == 1

\* feed.entries of a fetch that returned n entries.
Entries(n) == [i \in 1..n |-> i - 1]

FeedSizes == 1..MaxEntries

\* The page numbers and entry indices a button press carries in its
\* callback data: data of an earlier message, or data the client made up.
PageTokens == -1..MaxPage

ToggleTokens == {-1, 0, MaxEntries - 1, MaxEntries}

\* What edit_message_text does: it succeeds, raises BadRequest "message is
\* not modified", or raises another error.
GatewayOutcomes == {"ok", "not_modified", "error"}

\* math.ceil(n / p) for n >= 0 and p >= 1.
CeilDiv(n, p) == (n + p - 1) \div p

\* A slice that includes the element at stop.
PySliceInclusive(s, start, stop) ==
    LET n == Len(s)
        lo == IF start < 0 THEN Max(n + start, 0) ELSE Min(start, n)
        hi == IF stop < 0 THEN Max(n + stop, 0) ELSE Min(stop, n)
    IN  IF lo < hi + 1 THEN SubSeq(s, lo + 1, Min(hi + 1, n)) ELSE <<>>

\* The Python slice s[start:stop]: a negative bound counts from the end,
\* and both bounds are clipped to the list.
PySlice(s, start, stop) ==
    LET n == Len(s)
        lo == IF start < 0 THEN Max(n + start, 0) ELSE Min(start, n)
        hi == IF stop < 0 THEN Max(n + stop, 0) ELSE Min(stop, n)
    IN  IF lo < hi THEN SubSeq(s, lo + 1, hi) ELSE <<>>

\* total_pages as handle_rss_browse and handle_rss_toggle compute it.
total_pages_of(entries) == CeilDiv(Len(entries), items_per_page)

\* total_pages as handle_rss_page_info computes it.
total_pages_info(entries) ==
    IF entries # <<>> THEN CeilDiv(Len(entries), items_per_page) ELSE 1

\* The "Pagination" block and the keyboard built from it: one toggle button
\* per entry of the page, carrying the entry's global index, and the
\* Previous / Next buttons.
Paginate(entries, page) ==
    LET total_pages == total_pages_of(entries)
        start_idx == page * items_per_page
        end_idx == Min(start_idx + items_per_page, Len(entries))
        page_entries == PySlice(entries, start_idx, end_idx)
    IN  [n |-> Len(entries),
         page |-> page,
         total_pages |-> total_pages,
         start_idx |-> start_idx,
         end_idx |-> end_idx,
         buttons |-> [i \in 1..Len(page_entries) |->
                         [entry |-> page_entries[i],
                          global_idx |-> start_idx + (i - 1)]],
         prev |-> page > 0,
         next |-> page < total_pages - 1]

\* if 'rss_selected' not in context.user_data: ... = set().
WithSelected(ud) ==
    IF "rss_selected" \in DOMAIN ud THEN ud ELSE DictSet(ud, "rss_selected", {})

\* An answer that is not a rendered page.
Message(by, kind) == [by |-> by, kind |-> kind]

\* A download button that counts the selected entries of the shown page.
download_button_of_page(selected, p) ==
    LET on_page == {i \in 1..Len(p.buttons) :
                        p.buttons[i].global_idx \in selected}
    IN  [shown |-> on_page # {}, count |-> Cardinality(on_page)]

\* if selected: the button "Download (<len(selected)>)" and the text
\* "Selected: <len(selected)>".
download_button(selected, p) ==
    [shown |-> selected # {}, count |-> Cardinality(selected)]

\* A rendered page, or the exception the gateway raised for it.
Rendered(by, requested, ud, gw) ==
    [by |-> by, kind |-> "page", requested |-> requested,
     p |-> Paginate(DictGet(ud, "rss_entries", <<>>),
                    DictGet(ud, "rss_current_page", 0)),
     selected |-> DictGet(ud, "rss_selected", {}),
     download |-> download_button(
                      DictGet(ud, "rss_selected", {}),
                      Paginate(DictGet(ud, "rss_entries", <<>>),
                               DictGet(ud, "rss_current_page", 0))),
     gw |-> gw]

\* The handler ended with an exception that nothing in it caught: the
\* "else: raise" of handle_rss_browse for a gateway error that is not
\* "message is not modified".
Raises(v) == v.by = "browse" /\ v.kind = "page" /\ v.gw = "error"

InitBrowse ==
    /\ rss_file \in {NoFile,
                     JsonFile([k \in {StrOf(BrowseUser)} |->
                                  JsonString("https://old/feed")])}
    /\ last_call = NoCall
    /\ user_data = <<>>
    /\ view = NoView
    /\ pending = {}
    /\ prev_file = NoFile
    /\ serial = NoSerial
    /\ now = 0
    /\ batch_queues = <<>>
    /\ batch_tasks = <<>>
    /\ tasks = <<>>
    /\ sent = <<>>
    /\ arrivals = <<>>
    /\ errors = 0

\* An open that throws the stored entries away when the fetch fails.
BrowseOpenOfForgets(chat_id, fetch, n, gw) ==
    /\ IF get_rss_url(rss_file, chat_id, None) = None
       THEN /\ view' = Message("browse", "no_feed")
            /\ UNCHANGED user_data
       ELSE IF fetch # "ok"
       THEN /\ user_data' = DictDel(DictSet(user_data, "rss_current_page", 0),
                                    "rss_entries")
            /\ view' = Message("browse", fetch)
       ELSE LET ud == WithSelected(
                          DictSet(DictSet(DictSet(user_data,
                              "rss_current_page", 0),
                              "rss_entries", Entries(n)),
                              "rss_feed_title", "title"))
            IN  /\ user_data' = ud
                /\ view' = Rendered("browse", 0, ud, gw)
    /\ UNCHANGED <<batchVars, storeVars, handlerVars>>

\* handle_rss_browse for a press of user chat_id that is not a page change:
\* the feed is fetched (fetch is what feedparser returns: "bozo" without
\* entries, "empty" or n entries) and page 0 is rendered.
BrowseOpenOf(chat_id, fetch, n, gw) ==
    /\ IF get_rss_url(rss_file, chat_id, None) = None
       THEN /\ view' = Message("browse", "no_feed")
            /\ UNCHANGED user_data
       ELSE IF fetch # "ok"
       THEN /\ user_data' = DictSet(user_data, "rss_current_page", 0)
            /\ view' = Message("browse", fetch)
       ELSE LET ud == WithSelected(
                          DictSet(DictSet(DictSet(user_data,
                              "rss_current_page", 0),
                              "rss_entries", Entries(n)),
                              "rss_feed_title", "title"))
            IN  /\ user_data' = ud
                /\ view' = Rendered("browse", 0, ud, gw)
    /\ UNCHANGED <<batchVars, storeVars, handlerVars>>

\* The first press of the "Browse" button by BrowseUser.
BrowseOpen(fetch, n, gw) == BrowseOpenOf(BrowseUser, fetch, n, gw)

\* A page change that fetches again and gets a feed of one entry.
BrowsePageOfFetches(chat_id, page, gw) ==
    /\ IF get_rss_url(rss_file, chat_id, None) = None
       THEN /\ view' = Message("browse", "no_feed")
            /\ UNCHANGED user_data
       ELSE LET ud == WithSelected(
                          DictSet(DictSet(user_data, "rss_current_page", page),
                                  "rss_entries", Entries(1)))
            IN  /\ user_data' = ud
                /\ view' = Rendered("browse", page, ud, gw)
    /\ UNCHANGED <<batchVars, storeVars, handlerVars>>

\* handle_rss_browse for callback data "rss_page_<page>" pressed by user
\* chat_id: the page number is stored and that page of the stored entries
\* is rendered.
BrowsePageOf(chat_id, page, gw) ==
    /\ IF get_rss_url(rss_file, chat_id, None) = None
       THEN /\ view' = Message("browse", "no_feed")
            /\ UNCHANGED user_data
       ELSE LET ud == WithSelected(DictSet(user_data, "rss_current_page", page))
            IN  /\ user_data' = ud
                /\ view' = Rendered("browse", page, ud, gw)
    /\ UNCHANGED <<batchVars, storeVars, handlerVars>>

\* A page change pressed by BrowseUser.
BrowsePage(page, gw) == BrowsePageOf(BrowseUser, page, gw)

\* A toggle that only ever selects.
toggle_add_only(selected, idx) == selected \cup {idx}

\* if idx in selected: selected.remove(idx) / else: selected.add(idx).
toggle_selection(selected, idx) ==
    IF idx \in selected THEN selected \ {idx} ELSE selected \cup {idx}

\* The text of the query.answer that goes with the change.
toggle_answer(selected, idx) ==
    IF idx \in selected THEN "Unselected" ELSE "Selected"

\* handle_rss_toggle for callback data "rss_toggle_<idx>": the index is
\* added to or removed from the selection, the change is answered, and the
\* current page is rendered again; an exception of the gateway is caught and
\* answered with the alert "Error updating selection".
Toggle(idx, gw) ==
    LET ud0 == WithSelected(user_data)
        selected == ud0["rss_selected"]
        ud == DictSet(ud0, "rss_selected", toggle_selection(selected, idx))
    IN  /\ idx \in selected \/ Cardinality(selected) < MaxSelected
        /\ user_data' = ud
        /\ view' = Rendered("toggle", idx, ud, gw) @@
                       [answer |-> toggle_answer(selected, idx),
                        alert |-> gw = "error"]
        /\ UNCHANGED <<batchVars, storeVars, handlerVars>>

\* handle_rss_page_info: the answer "Page <page+1> of <total_pages>".
PageInfo ==
    /\ view' = [by |-> "page_info", kind |-> "answer",
                n |-> Len(DictGet(user_data, "rss_entries", <<>>)),
                page |-> DictGet(user_data, "rss_current_page", 0),
                total_pages |->
                    total_pages_info(DictGet(user_data, "rss_entries", <<>>))]
    /\ UNCHANGED user_data
    /\ UNCHANGED <<batchVars, storeVars, handlerVars>>

\* A cancel that keeps the fetched entries.
CancelKeepsEntries ==
    /\ user_data' = [k \in DOMAIN user_data \
                          {"rss_selected", "rss_current_page",
                           "rss_feed_title"} |->
                        user_data[k]]
    /\ view' = Message("cancel", "menu")
    /\ UNCHANGED <<batchVars, storeVars, handlerVars>>

\* handle_rss_cancel: the four session keys are popped and the menu shown.
Cancel ==
    /\ user_data' = [k \in DOMAIN user_data \
                          {"rss_selected", "rss_entries",
                           "rss_current_page", "rss_feed_title"} |->
                        user_data[k]]
    /\ view' = Message("cancel", "menu")
    /\ UNCHANGED <<batchVars, storeVars, handlerVars>>

\* button_callback for callback data "menu": the message is replaced by the
\* main menu; context.user_data is not touched.
Menu ==
    /\ view' = Message("menu", "menu")
    /\ UNCHANGED user_data
    /\ UNCHANGED <<batchVars, storeVars, handlerVars>>

\* What happens to one selected entry: its file is fetched and written, the
\* entry has no link, or the fetch or the write raises.
ItemOutcomes == {"ok", "no_link", "error"}

\* What the gateway does with the two calls of handle_rss_download: both
\* succeed, the first query.answer raises, or edit_message_text raises.
DownloadGateway == {"ok", "answer_fails", "edit_fails"}

\* The orders in which a for loop can visit the members of a Python set.
RECURSIVE Orders(_)
Orders(S) ==
    IF S = {}
    THEN {<<>>}
    ELSE UNION {{<<x>> \o o : o \in Orders(S \ {x})} : x \in S}

\* The selected indices for which entries[idx] is an entry: those the loop
\* does not skip and for which the subscript does not raise.
Resolving(selected, n) == {idx \in selected : idx < n /\ idx >= -n}

\* downloaded = [], failed = [], no index visited and no exception so far.
NoReport ==
    [downloaded |-> <<>>, failed |-> <<>>, visited |-> <<>>, raised |-> FALSE]

\* entry.get('title', 'Unknown') of the entries of the feed, as sequences of
\* characters: the feed is one that has two titles which differ only in a
\* path separator, and entries beyond the third repeat the titles.
FeedTitles == <<<<"a", "/", "b">>, <<"a", "_", "b">>, <<"c">>>>

torrent_title(entry) == FeedTitles[(entry % Len(FeedTitles)) + 1]

\* The length to which a title is cut.
TitleCap == 100

\* f"{torrent_title[:100]}.torrent".replace('/', '_').replace('\\', '_'):
\* the name of the file in WATCH_FOLDER.
download_file_name(title) ==
    LET name == SubSeq(title, 1, Min(Len(title), TitleCap)) \o <<".torrent">>
    IN  [i \in 1..Len(name) |->
            IF name[i] \in {"/", "\\"} THEN "_" ELSE name[i]]

\* A loop body that forgets the entries it could not download.
download_item_drops_failed(entries, idx, outcome, acc) ==
    IF idx >= Len(entries)
    THEN acc
    ELSE IF idx < -Len(entries)
    THEN [acc EXCEPT !.raised = TRUE]
    ELSE LET entry == entries[IF idx >= 0
                              THEN idx + 1
                              ELSE Len(entries) + idx + 1]
             item == [idx |-> idx, entry |-> entry,
                      file_name |-> download_file_name(torrent_title(entry))]
         IN  IF outcome = "ok"
             THEN [acc EXCEPT !.downloaded = Append(@, item)]
             ELSE acc

\* The body of "for idx in selected": an index at or beyond the end of the
\* list is skipped, entries[idx] of a negative index counts from the end of
\* the list and raises IndexError beyond its start, and the entry goes to
\* downloaded or to failed.
download_item(entries, idx, outcome, acc) ==
    IF idx >= Len(entries)
    THEN acc
    ELSE IF idx < -Len(entries)
    THEN [acc EXCEPT !.raised = TRUE]
    ELSE LET entry == entries[IF idx >= 0
                              THEN idx + 1
                              ELSE Len(entries) + idx + 1]
             item == [idx |-> idx, entry |-> entry,
                      file_name |-> download_file_name(torrent_title(entry))]
         IN  IF outcome = "ok"
             THEN [acc EXCEPT !.downloaded = Append(@, item)]
             ELSE [acc EXCEPT !.failed = Append(@, item)]

\* The loop over the selection, visited in the given order; an exception
\* that no inner handler catches ends it.
RECURSIVE download_loop(_, _, _, _)
download_loop(entries, order, outcome, acc) ==
    IF order = <<>> \/ acc.raised
    THEN acc
    ELSE download_loop(entries, Tail(order), outcome,
                       [download_item(entries, Head(order),
                                      DictGet(outcome, Head(order), "ok"), acc)
                            EXCEPT !.visited = Append(@, Head(order))])

\* A selection that keeps the entries that failed.
selection_after_download_keeps_failed(report) ==
    {report.failed[i].idx : i \in 1..Len(report.failed)}

\* context.user_data['rss_selected'] = set().
selection_after_download(report) == {}

\* handle_rss_download: nothing is done for an empty selection; otherwise
\* the selected entries are downloaded one by one (order is the order in
\* which the loop visits the set, outcome what happens to each entry it
\* tries), the selection is emptied and the summary is shown. The answer
\* records the indices the loop visited and what happened to them. An exception outside the loop body is answered
\* with the alert "Error downloading torrents!".
Download(gw) ==
    LET selected == DictGet(user_data, "rss_selected", {})
        entries == DictGet(user_data, "rss_entries", <<>>)
        started == gw # "answer_fails"
    IN  \E order \in Orders(selected),
           outcome \in [Resolving(selected, Len(entries)) -> ItemOutcomes] :
          LET report == download_loop(entries, order, outcome, NoReport)
              finished == started /\ ~report.raised
          IN  /\ IF selected = {}
                 THEN /\ view' = Message("download", "none_selected")
                      /\ UNCHANGED user_data
                 ELSE /\ user_data' =
                             IF finished
                             THEN DictSet(user_data, "rss_selected",
                                          selection_after_download(report))
                             ELSE user_data
                      /\ view' = [by |-> "download",
                                  kind |-> IF finished /\ gw = "ok"
                                           THEN "summary" ELSE "error",
                                  selected |-> selected,
                                  n |-> Len(entries),
                                  order |-> IF started
                                            THEN report.visited ELSE <<>>,
                                  outcome |-> IF started
                                              THEN [idx \in Range(report.visited)
                                                        \cap DOMAIN outcome |->
                                                            outcome[idx]]
                                              ELSE <<>>,
                                  started |-> started,
                                  finished |-> finished,
                                  downloaded |-> IF started
                                                 THEN report.downloaded
                                                 ELSE <<>>,
                                  failed |-> IF started
                                             THEN report.failed ELSE <<>>,
                                  gw |-> gw]
              /\ UNCHANGED <<batchVars, storeVars, handlerVars>>

\* The presses of a user who browses long feeds and selects one entry at a
\* time.
NextBrowse ==
    \/ \E fetch \in {"bozo", "empty"}, gw \in GatewayOutcomes :
           BrowseOpen(fetch, 0, gw)
    \/ \E n \in FeedSizes, gw \in GatewayOutcomes : BrowseOpen("ok", n, gw)
    \/ \E page \in PageTokens, gw \in GatewayOutcomes : BrowsePage(page, gw)
    \/ \E idx \in ToggleTokens, gw \in GatewayOutcomes :
           /\ DictGet(user_data, "rss_selected", {}) \subseteq {idx}
           /\ Toggle(idx, gw)
    \/ PageInfo
    \/ Cancel

SpecBrowse == InitBrowse /\ [][NextBrowse]_vars

\* The presses of a user who browses short feeds and selects several
\* entries.
SessionSizes == {1, 3}

SessionTokens == {-1, 0, 1, 2, 3}

SessionPages == {0, 1}

NextSession ==
    \/ \E fetch \in {"bozo", "empty"} : BrowseOpen(fetch, 0, "ok")
    \/ \E n \in SessionSizes, gw \in GatewayOutcomes : BrowseOpen("ok", n, gw)
    \/ \E page \in SessionPages, gw \in GatewayOutcomes : BrowsePage(page, gw)
    \/ \E idx \in SessionTokens, gw \in GatewayOutcomes : Toggle(idx, gw)
    \/ PageInfo
    \/ Cancel
    \/ Menu
    \/ \E gw \in DownloadGateway : Download(gw)

SpecSession == InitBrowse /\ [][NextSession]_vars

\* utils.auth.is_authorized.
is_authorized(chat_id) == chat_id \in ALLOWED_CHAT_IDS

\* The handlers that begin with the authorization check.
GuardedHandlers ==
    {"handle_document", "setrss_command", "clearrss_command",
     "browse_command"}

\* One of the guarded handlers for an unauthorized chat: the refusal is
\* sent and the handler returns.
Refuse(chat_id, handler) ==
    /\ ~is_authorized(chat_id)
    /\ view' = Message(handler, "unauthorized")
    /\ UNCHANGED user_data
    /\ UNCHANGED <<batchVars, storeVars, handlerVars>>

\* The store may hold a feed of the user from a time when the allow-list
\* had the user on it.
InitIntruder ==
    /\ rss_file \in {NoFile,
                     JsonFile([k \in {StrOf(Intruder)} |->
                                  JsonString("https://old/feed")])}
    /\ last_call = NoCall
    /\ user_data = <<>>
    /\ view = NoView
    /\ pending = {}
    /\ prev_file = NoFile
    /\ serial = NoSerial
    /\ now = 0
    /\ batch_queues = <<>>
    /\ batch_tasks = <<>>
    /\ tasks = <<>>
    /\ sent = <<>>
    /\ arrivals = <<>>
    /\ errors = 0

\* The events of the user who is not on the allow-list; user_data is the
\* context.user_data of that user.
NextIntruder ==
    \/ \E handler \in GuardedHandlers : Refuse(Intruder, handler)
    \/ \E fetch \in {"bozo", "empty"} : BrowseOpenOf(Intruder, fetch, 0, "ok")
    \/ \E n \in SessionSizes, gw \in GatewayOutcomes :
           BrowseOpenOf(Intruder, "ok", n, gw)
    \/ \E page \in SessionPages, gw \in GatewayOutcomes :
           BrowsePageOf(Intruder, page, gw)
    \/ \E idx \in SessionTokens, gw \in GatewayOutcomes : Toggle(idx, gw)
    \/ PageInfo
    \/ Cancel
    \/ Menu
    \/ \E gw \in DownloadGateway : Download(gw)

SpecIntruder == InitIntruder /\ [][NextIntruder]_vars

\* ------------------------------------------------------------------- Init

\* The coordinator at the start: both dictionaries empty; the store is left
\* alone.
Init ==
    /\ now = 0
    /\ batch_queues = <<>>
    /\ batch_tasks = <<>>
    /\ tasks = <<>>
    /\ sent = <<>>
    /\ arrivals = <<>>
    /\ errors = 0
    /\ rss_file = NoFile
    /\ last_call = NoCall
    /\ pending = {}
    /\ prev_file = NoFile
    /\ serial = NoSerial
    /\ user_data = <<>>
    /\ view = NoView

\* ---------------------------------------------------------------- actions

\* A handler that cancels every task of the chat, also one that is sending.
HandleDocumentCancelsAll(chat_id, success) ==
    LET file == TorrentFile(Len(arrivals) + 1, success, chat_id, now)
        queue == DictGet(batch_queues, chat_id, <<>>)
        cancelled == [t \in DOMAIN tasks |->
                         IF tasks[t].chat_id = chat_id
                            /\ tasks[t].pc \notin {"done", "cancelled"}
                         THEN [tasks[t] EXCEPT !.must_cancel = TRUE]
                         ELSE tasks[t]]
        task == [chat_id |-> chat_id, pc |-> "created", deadline |-> 0,
                 must_cancel |-> FALSE]
    IN  /\ Len(arrivals) < MaxFiles
        /\ now + T <= MaxTime
        /\ batch_queues' = DictSet(batch_queues, chat_id, Append(queue, file))
        /\ tasks' = Append(cancelled, task)
        /\ batch_tasks' = DictSet(batch_tasks, chat_id, Len(tasks) + 1)
        /\ arrivals' = Append(arrivals, file)
        /\ UNCHANGED <<now, sent, errors>>
        /\ UNCHANGED <<storeVars, handlerVars, browseVars>>

\* A handler that records a failed download but neither queues the file
\* nor touches the timer.
HandleDocumentSkipsFailed(chat_id, success) ==
    LET file == TorrentFile(Len(arrivals) + 1, success, chat_id, now)
        queue == DictGet(batch_queues, chat_id, <<>>)
        cancelled == IF chat_id \in DOMAIN batch_tasks
                     THEN CancelTask(tasks, batch_tasks[chat_id])
                     ELSE tasks
        task == [chat_id |-> chat_id, pc |-> "created", deadline |-> 0,
                 must_cancel |-> FALSE]
    IN  /\ Len(arrivals) < MaxFiles
        /\ now + T <= MaxTime
        /\ arrivals' = Append(arrivals, file)
        /\ IF success
           THEN /\ batch_queues' =
                       DictSet(batch_queues, chat_id, Append(queue, file))
                /\ tasks' = Append(cancelled, task)
                /\ batch_tasks' = DictSet(batch_tasks, chat_id, Len(tasks) + 1)
           ELSE UNCHANGED <<batch_queues, tasks, batch_tasks>>
        /\ UNCHANGED <<now, sent, errors>>
        /\ UNCHANGED <<storeVars, handlerVars, browseVars>>

\* handle_document for an authorized chat and a .torrent document: the
\* download succeeds or fails (success), then the file is recorded, the
\* registered task is cancelled and a new one is created and registered.
HandleDocument(chat_id, success) ==
    LET file == TorrentFile(Len(arrivals) + 1, success, chat_id, now)
        queue == DictGet(batch_queues, chat_id, <<>>)
        cancelled == IF chat_id \in DOMAIN batch_tasks
                     THEN CancelTask(tasks, batch_tasks[chat_id])
                     ELSE tasks
        task == [chat_id |-> chat_id, pc |-> "created", deadline |-> 0,
                 must_cancel |-> FALSE]
    IN  /\ Len(arrivals) < MaxFiles
        /\ now + T <= MaxTime
        /\ batch_queues' = DictSet(batch_queues, chat_id, Append(queue, file))
        /\ tasks' = Append(cancelled, task)
        /\ batch_tasks' = DictSet(batch_tasks, chat_id, Len(tasks) + 1)
        /\ arrivals' = Append(arrivals, file)
        /\ UNCHANGED <<now, sent, errors>>
        /\ UNCHANGED <<storeVars, handlerVars, browseVars>>

\* A first step that does not sleep.
TaskStartNoSleep(t) ==
    /\ tasks[t].pc = "created"
    /\ tasks' = IF tasks[t].must_cancel
                THEN [tasks EXCEPT ![t].pc = "cancelled"]
                ELSE [tasks EXCEPT ![t].pc = "sleeping", ![t].deadline = now]
    /\ UNCHANGED <<now, batch_queues, batch_tasks, sent, arrivals, errors>>
    /\ UNCHANGED <<storeVars, handlerVars, browseVars>>

\* The first step of a task: it enters the try block and starts
\* asyncio.sleep(BATCH_TIMEOUT); a task cancelled before its first step ends
\* cancelled without running any of its body.
TaskStart(t) ==
    /\ tasks[t].pc = "created"
    /\ tasks' = IF tasks[t].must_cancel
                THEN [tasks EXCEPT ![t].pc = "cancelled"]
                ELSE [tasks EXCEPT ![t].pc = "sleeping",
                                   ![t].deadline = now + T]
    /\ UNCHANGED <<now, batch_queues, batch_tasks, sent, arrivals, errors>>
    /\ UNCHANGED <<storeVars, handlerVars, browseVars>>

\* The sleep's timer comes due: the task is scheduled to resume.
TimerExpire(t) ==
    /\ tasks[t].pc = "sleeping"
    /\ ~tasks[t].must_cancel
    /\ now >= tasks[t].deadline
    /\ tasks' = [tasks EXCEPT ![t].pc = "woken"]
    /\ UNCHANGED <<now, batch_queues, batch_tasks, sent, arrivals, errors>>
    /\ UNCHANGED <<storeVars, handlerVars, browseVars>>

\* A cancelled task resumes inside the sleep with CancelledError, which
\* "except asyncio.CancelledError: pass" swallows.
TaskCancelled(t) ==
    /\ tasks[t].pc \in {"sleeping", "woken"}
    /\ tasks[t].must_cancel
    /\ tasks' = [tasks EXCEPT ![t].pc = "done"]
    /\ UNCHANGED <<now, batch_queues, batch_tasks, sent, arrivals, errors>>
    /\ UNCHANGED <<storeVars, handlerVars, browseVars>>

\* The task resumes after the sleep: it reads the queue, returns if it is
\* empty, otherwise clears the queue, removes the registered task, renders
\* the message and calls send_message (the await of the call is SendDone).
TaskFire(t) ==
    LET chat_id == tasks[t].chat_id
        files == DictGet(batch_queues, chat_id, <<>>)
    IN  /\ tasks[t].pc = "woken"
        /\ ~tasks[t].must_cancel
        /\ IF files = <<>>
           THEN /\ tasks' = [tasks EXCEPT ![t].pc = "done"]
                /\ UNCHANGED <<batch_queues, batch_tasks, sent>>
           ELSE /\ batch_queues' = ClearQueue(batch_queues, chat_id)
                /\ batch_tasks' = Unregister(batch_tasks, chat_id)
                /\ sent' = Append(sent,
                       [chat_id |-> chat_id, task |-> t, files |-> files,
                        format |-> Format(files), lines |-> FileList(files),
                        at |-> now, result |-> "inflight"])
                /\ tasks' = [tasks EXCEPT ![t].pc = "sending"]
        /\ UNCHANGED <<now, arrivals, errors>>
        /\ UNCHANGED <<storeVars, handlerVars, browseVars>>

\* The index in sent of the message task t is sending.
MessageOf(t) == CHOOSE i \in DOMAIN sent : sent[i].task = t

\* A failed send that puts the batch back in the queue and lets the
\* exception escape.
SendDoneRequeues(t, ok) ==
    /\ tasks[t].pc = "sending"
    /\ tasks' = [tasks EXCEPT ![t].pc = IF ok THEN "done" ELSE "raised"]
    /\ sent' = [sent EXCEPT ![MessageOf(t)].result =
                    IF ok THEN "delivered" ELSE "failed"]
    /\ errors' = IF ok THEN errors ELSE errors + 1
    /\ batch_queues' =
           IF ok
           THEN batch_queues
           ELSE DictSet(batch_queues, tasks[t].chat_id,
                        sent[MessageOf(t)].files
                            \o DictGet(batch_queues, tasks[t].chat_id, <<>>))
    /\ UNCHANGED <<now, batch_tasks, arrivals>>
    /\ UNCHANGED <<storeVars, handlerVars, browseVars>>

\* send_message returns or raises.  An exception is caught by
\* "except Exception" and logged; the task ends normally either way.
SendDone(t, ok) ==
    /\ tasks[t].pc = "sending"
    /\ tasks' = [tasks EXCEPT ![t].pc = "done"]
    /\ IF tasks[t].must_cancel
       THEN /\ sent' = [sent EXCEPT ![MessageOf(t)].result = "cancelled"]
            /\ UNCHANGED errors
       ELSE IF ok
       THEN /\ sent' = [sent EXCEPT ![MessageOf(t)].result = "delivered"]
            /\ UNCHANGED errors
       ELSE /\ sent' = [sent EXCEPT ![MessageOf(t)].result = "failed"]
            /\ errors' = errors + 1
    /\ UNCHANGED <<now, batch_queues, batch_tasks, arrivals>>
    /\ UNCHANGED <<storeVars, handlerVars, browseVars>>

\* A task the event loop can run now: time does not pass over it.
Runnable(t) ==
    \/ tasks[t].pc \in {"created", "woken"}
    \/ tasks[t].pc = "sleeping" /\ tasks[t].must_cancel
    \/ tasks[t].pc = "sleeping" /\ now >= tasks[t].deadline

\* The clock advances by one tick once the loop has run what is ready.  The
\* program reads the clock only to set and to expire a sleep, so time that
\* passes while no task sleeps is not counted.
Tick ==
    /\ now < MaxTime
    /\ \E t \in DOMAIN tasks : tasks[t].pc = "sleeping"
    /\ \A t \in DOMAIN tasks : ~Runnable(t)
    /\ now' = now + 1
    /\ UNCHANGED <<batch_queues, batch_tasks, tasks, sent, arrivals, errors>>
    /\ UNCHANGED <<storeVars, handlerVars, browseVars>>

Next ==
    \/ \E chat_id \in ALLOWED_CHAT_IDS, success \in BOOLEAN :
           HandleDocument(chat_id, success)
    \/ \E t \in DOMAIN tasks : TaskStart(t)
    \/ \E t \in DOMAIN tasks : TimerExpire(t)
    \/ \E t \in DOMAIN tasks : TaskCancelled(t)
    \/ \E t \in DOMAIN tasks : TaskFire(t)
    \/ \E t \in DOMAIN tasks, ok \in BOOLEAN : SendDone(t, ok)
    \/ Tick

Spec == Init /\ [][Next]_vars

\* The event loop runs every ready callback and the clock does not stop:
\* every step of a task and every timer is eventually taken.
FairSpec ==
    /\ Spec
    /\ WF_vars(Tick)
    /\ WF_vars(\E t \in DOMAIN tasks : TaskStart(t))
    /\ WF_vars(\E t \in DOMAIN tasks : TimerExpire(t))
    /\ WF_vars(\E t \in DOMAIN tasks : TaskCancelled(t))
    /\ WF_vars(\E t \in DOMAIN tasks : TaskFire(t))

\* The store, with the coordinator left alone.
SpecStore == InitStore /\ [][NextStore]_vars

\* Document names, written as their pieces: the text before the first dot
\* and then each dot with what follows it.
UploadNames ==
    {<<"a", ".torrent">>, <<"A", ".TORRENT">>, <<"a", ".Torrent">>,
     <<"a", ".txt">>, <<"a", ".torrent", ".txt">>, <<"torrent">>, <<"a">>}

\* str.lower on the pieces that have upper-case letters.
lower(file_name) ==
    [i \in DOMAIN file_name |->
        CASE file_name[i] = "A" -> "a"
          [] file_name[i] \in {".TORRENT", ".Torrent"} -> ".torrent"
          [] OTHER -> file_name[i]]

endswith(file_name, suffix) ==
    file_name # <<>> /\ file_name[Len(file_name)] = suffix

\* A test that looks for the extension anywhere in the name.
is_torrent_name_anywhere(file_name) ==
    \E i \in DOMAIN file_name : lower(file_name)[i] = ".torrent"

\* The test handle_document applies to the name of the document.
is_torrent_name(file_name) == endswith(lower(file_name), ".torrent")

\* handle_document for an authorized chat and a document of any name: a
\* name the test refuses is answered with "INVALID FILE" and the handler
\* returns; any other name goes on to the download.
HandleUpload(chat_id, file_name, success) ==
    IF ~is_torrent_name(file_name)
    THEN /\ view' = Message("handle_document", "invalid_file")
         /\ UNCHANGED user_data
         /\ UNCHANGED <<batchVars, storeVars, handlerVars>>
    ELSE HandleDocument(chat_id, success)

\* The chat that uploads.
UploadChats == {1}

NextUpload ==
    \/ \E chat_id \in UploadChats, file_name \in UploadNames,
          success \in BOOLEAN : HandleUpload(chat_id, file_name, success)
    \/ \E t \in DOMAIN tasks : TaskStart(t)
    \/ \E t \in DOMAIN tasks : TimerExpire(t)
    \/ \E t \in DOMAIN tasks : TaskCancelled(t)
    \/ \E t \in DOMAIN tasks : TaskFire(t)
    \/ \E t \in DOMAIN tasks, ok \in BOOLEAN : SendDone(t, ok)
    \/ Tick

\* The coordinator with uploads of every kind of name.
SpecUpload == Init /\ [][NextUpload]_vars

\* ------------------------------------------------------- feed store claims

\* C10 as stated (round trip).  After a successful save_rss_url(u, name,
\* url), get_rss_url(u, name) is url, get_all_rss(u) maps name to url, and
\* when the store was empty get_all_rss(u) is exactly {name: url}.
C10_RoundTrip ==
    (last_call.op = "save" /\ last_call.ret[1]) =>
        /\ get_rss_url(rss_file, last_call.chat_id, last_call.name)
               = last_call.url
        /\ FeedsGet(get_all_rss(rss_file, last_call.chat_id),
                    last_call.name, None) = last_call.url
        /\ last_call.was_empty =>
               get_all_rss(rss_file, last_call.chat_id)
                   = <<Entry(last_call.name, last_call.url)>>

\* The round trip of C10 for the names that are not the empty string.
C10_RoundTripNamed ==
    (last_call.op = "save" /\ last_call.ret[1] /\ last_call.name # "") =>
        /\ get_rss_url(rss_file, last_call.chat_id, last_call.name)
               = last_call.url
        /\ FeedsGet(get_all_rss(rss_file, last_call.chat_id),
                    last_call.name, None) = last_call.url
        /\ last_call.was_empty =>
               get_all_rss(rss_file, last_call.chat_id)
                   = <<Entry(last_call.name, last_call.url)>>

\* ------------------------------------------------- batch coordinator claims

\* The queue of a chat, empty when the chat has no key in batch_queues.
QueueOf(chat_id) == DictGet(batch_queues, chat_id, <<>>)

\* The files a chat has recorded so far, in recording order.
ChatFiles(chat_id) == SelectSeq(arrivals, LAMBDA f : f.chat_id = chat_id)

\* The messages sent to a chat.
SentTo(chat_id) == {i \in DOMAIN sent : sent[i].chat_id = chat_id}

\* How many times x occurs in the sequence s.
Occurrences(s, x) == Cardinality({k \in DOMAIN s : s[k] = x})

\* The messages whose batch holds file f.
SummariesOf(f) == {i \in DOMAIN sent : Occurrences(sent[i].files, f) > 0}

\* A task that still waits for its timeout: not cancelled, not fired.
Live(t) ==
    /\ tasks[t].pc \in {"created", "sleeping", "woken"}
    /\ ~tasks[t].must_cancel

\* A task of the chat that has not yet run to its drain or its end.
Pending(chat_id) ==
    \E t \in DOMAIN tasks :
        /\ tasks[t].chat_id = chat_id
        /\ tasks[t].pc \in {"created", "sleeping", "woken"}

\* Every two files the chat recorded one after the other are less than T
\* apart: the chat's files are one burst.
OneBurst(chat_id) ==
    LET fs == ChatFiles(chat_id)
    IN  /\ fs # <<>>
        /\ \A k \in 1..(Len(fs) - 1) : fs[k + 1].at - fs[k].at < T

\* The arrivals of the chat are the three of the example: 0 s, 0.5 s, 1.0 s.
ExampleBurst(chat_id) ==
    LET fs == ChatFiles(chat_id)
    IN  /\ Len(fs) = 3
        /\ fs[1].at = 0 /\ fs[2].at = 1 /\ fs[3].at = 2

\* C1 (debounce).  Every summary is emitted exactly T after the last file of
\* its batch was recorded; of two files a chat recorded less than T apart,
\* the first is in no summary without the second; a chat
\* whose files are one burst gets, once its timers have run, exactly one
\* summary, holding all its files.  For arrivals at 0, 0.5 and 1.0 s no
\* summary exists before 3.0 s and the one summary is emitted at 3.0 s with
\* the three files.
C1_Debounce ==
    /\ \A i \in DOMAIN sent :
           sent[i].at = sent[i].files[Len(sent[i].files)].at + T
    /\ \A c \in ALLOWED_CHAT_IDS :
           LET fs == ChatFiles(c)
           IN  /\ \A k \in 1..(Len(fs) - 1) :
                      fs[k + 1].at - fs[k].at < T =>
                          \A i \in DOMAIN sent :
                              fs[k] \in Range(sent[i].files) =>
                                  fs[k + 1] \in Range(sent[i].files)
               /\ (OneBurst(c) /\ ~Pending(c)) =>
                      /\ Cardinality(SentTo(c)) = 1
                      /\ \A i \in SentTo(c) : sent[i].files = fs
               /\ ExampleBurst(c) =>
                      /\ now < 3 * 2 => SentTo(c) = {}
                      /\ \A i \in SentTo(c) :
                             sent[i].at = 3 * 2 /\ sent[i].files = fs

\* C1 witness: the example has run: the three files recorded at 0, 0.5 and
\* 1.0 s are in one summary emitted at 3.0 s.
C1_Witness ==
    \E c \in ALLOWED_CHAT_IDS :
        /\ ExampleBurst(c)
        /\ ~Pending(c)
        /\ \E i \in SentTo(c) : sent[i].at = 6 /\ Len(sent[i].files) = 3

\* The files of all summaries, one batch after the other.
RECURSIVE DrainedUpTo(_)
DrainedUpTo(n) ==
    IF n = 0 THEN <<>> ELSE DrainedUpTo(n - 1) \o sent[n].files

\* The files in the queues, one chat after the other.
RECURSIVE QueuedOf(_)
QueuedOf(chats) ==
    IF chats = {}
    THEN <<>>
    ELSE LET c == CHOOSE x \in chats : TRUE
         IN  batch_queues[c] \o QueuedOf(chats \ {c})

\* C2 (cancel/fire race).  The queues and the batches of the summaries
\* together hold every recorded file exactly once: a file is in its chat's
\* queue until one drain moves it to one summary, none is lost and none is
\* in two summaries or in a summary and a queue.  A queue holds only files
\* of its chat.
C2_DrainedExactlyOnce ==
    LET held == DrainedUpTo(Len(sent)) \o QueuedOf(DOMAIN batch_queues)
    IN  /\ Len(held) = Len(arrivals)
        /\ Range(held) = Range(arrivals)
        /\ \A k \in DOMAIN arrivals : arrivals[k].name = k
        /\ \A c \in DOMAIN batch_queues :
               \A k \in DOMAIN batch_queues[c] :
                   batch_queues[c][k].chat_id = c

\* C2 witness: the race has happened and the arrival won: a file recorded at
\* the very tick the pending timer came due is in a summary together with
\* the file that timer was armed for.
C2_Witness ==
    \E i \in DOMAIN sent :
        \E k \in 1..(Len(sent[i].files) - 1) :
            sent[i].files[k + 1].at = sent[i].files[k].at + T

\* What a drain by task t must leave alone: the queue, the registered task
\* and the tasks of every other chat.
OthersUnchanged(t) ==
    \A c \in ALLOWED_CHAT_IDS \ {tasks[t].chat_id} :
        /\ (c \in DOMAIN batch_queues)' = (c \in DOMAIN batch_queues)
        /\ QueueOf(c)' = QueueOf(c)
        /\ (c \in DOMAIN batch_tasks)' = (c \in DOMAIN batch_tasks)
        /\ DictGet(batch_tasks, c, 0)' = DictGet(batch_tasks, c, 0)
        /\ \A x \in DOMAIN tasks :
               tasks[x].chat_id = c => tasks'[x] = tasks[x]

\* The state part of C3.
C3_OwnFilesOnly ==
    /\ \A i \in DOMAIN sent :
           \A f \in Range(sent[i].files) : f.chat_id = sent[i].chat_id
    /\ \A c \in ALLOWED_CHAT_IDS :
           (OneBurst(c) /\ ~Pending(c)) =>
               /\ Cardinality(SentTo(c)) = 1
               /\ \A i \in SentTo(c) :
                      Range(sent[i].files) = Range(ChatFiles(c))

\* C3 (per-chat isolation).  Every file of a summary sent to a chat was
\* recorded by that chat; a chat whose arrivals are one burst gets exactly
\* one summary, whatever the other chat does in between; and a drain for one
\* chat leaves the queue and the timer of every other chat unchanged.
C3_Isolation ==
    /\ []C3_OwnFilesOnly
    /\ [][\A t \in DOMAIN tasks : TaskFire(t) => OthersUnchanged(t)]_vars

\* C3 witness: two chats' arrivals interleaved and each has its summary.
C3_Witness ==
    /\ Len(arrivals) = 3
    /\ arrivals[1].chat_id # arrivals[2].chat_id
    /\ arrivals[3].chat_id = arrivals[1].chat_id
    /\ arrivals[3].at - arrivals[1].at < T
    /\ \A c \in ALLOWED_CHAT_IDS : Cardinality(SentTo(c)) = 1

\* C4 (one live timer per chat).  A chat has at most one task that waits for
\* its timeout and is neither cancelled nor fired, and that task is the one
\* registered in batch_tasks.
C4_OneLiveTimer ==
    \A t \in DOMAIN tasks :
        Live(t) =>
            /\ tasks[t].chat_id \in DOMAIN batch_tasks
            /\ batch_tasks[tasks[t].chat_id] = t
            /\ \A x \in DOMAIN tasks :
                   (Live(x) /\ tasks[x].chat_id = tasks[t].chat_id) => x = t

\* C4 witness: a chat recorded a second file while a timer was pending: the
\* old task is cancelled and the new one is the live one.
C4_Witness ==
    \E t1 \in DOMAIN tasks, t2 \in DOMAIN tasks :
        /\ t1 < t2
        /\ tasks[t1].chat_id = tasks[t2].chat_id
        /\ tasks[t1].must_cancel
        /\ tasks[t1].deadline > 0
        /\ Live(t2)

\* C5 (every arrival restarts the clock).  No summary is sent by a task that
\* was cancelled, and a summary is emitted no earlier than T after every
\* file its chat had recorded by then: the files of its batch and the files
\* recorded at an earlier tick.
C5_RestartsClock ==
    \A i \in DOMAIN sent :
        /\ ~tasks[sent[i].task].must_cancel
        /\ \A k \in DOMAIN arrivals :
               (/\ arrivals[k].chat_id = sent[i].chat_id
                /\ \/ arrivals[k].at < sent[i].at
                   \/ \E j \in DOMAIN sent[i].files :
                          sent[i].files[j] = arrivals[k])
               => sent[i].at >= arrivals[k].at + T

\* C5 witness: a summary was emitted by the task that replaced a timer whose
\* sleep had started.
C5_Witness ==
    \E i \in DOMAIN sent :
        \E t \in DOMAIN tasks :
            /\ t < sent[i].task
            /\ tasks[t].chat_id = sent[i].chat_id
            /\ tasks[t].must_cancel
            /\ tasks[t].deadline > 0
            /\ tasks[t].deadline <= sent[i].at

\* The position of the file called name in the batch of message i.
PositionIn(i, name) ==
    CHOOSE k \in DOMAIN sent[i].files : sent[i].files[k].name = name

Idle(chat_id) == QueueOf(chat_id) = <<>> /\ chat_id \notin DOMAIN batch_tasks

\* C7 (liveness).  Under fair scheduling every recorded file ends up in a
\* summary, and every chat ends up Idle for good.
C7_EventuallyIdle ==
    /\ \A k \in 1..MaxFiles :
           (Len(arrivals) >= k) ~>
               (Len(arrivals) >= k /\ SummariesOf(arrivals[k]) # {})
    /\ <>[](\A c \in ALLOWED_CHAT_IDS : Idle(c))

\* C7 witness: a chat that accumulated two files is Idle again and the two
\* files are in a summary.
C7_Witness ==
    \E i \in DOMAIN sent :
        /\ Len(sent[i].files) >= 2
        /\ Idle(sent[i].chat_id)
        /\ ~Pending(sent[i].chat_id)

\* C8 (send failure).  When the send of a summary has failed, the task has
\* ended normally, one error is logged per failed send, the batch's files
\* are in no queue and in no other summary.
C8_FailedSendDropped ==
    /\ errors = Cardinality({i \in DOMAIN sent : sent[i].result = "failed"})
    /\ \A t \in DOMAIN tasks : tasks[t].pc # "raised"
    /\ \A i \in DOMAIN sent :
           sent[i].result = "failed" =>
               /\ tasks[sent[i].task].pc = "done"
               /\ \A f \in Range(sent[i].files) :
                      /\ \A c \in DOMAIN batch_queues :
                             Occurrences(batch_queues[c], f) = 0
                      /\ SummariesOf(f) = {i}

\* C8 witness: a send failed and the same chat later got another summary.
C8_Witness ==
    \E i \in DOMAIN sent, j \in DOMAIN sent :
        /\ i < j
        /\ sent[i].chat_id = sent[j].chat_id
        /\ sent[i].result = "failed"
        /\ sent[j].result = "delivered"

\* The state part of C9.
C9_OneLinePerFile ==
    \A i \in DOMAIN sent :
        /\ sent[i].files # <<>>
        /\ (Len(sent[i].files) = 1) =
               (sent[i].format \in {"single_success", "single_error"})
        /\ (Len(sent[i].files) # 1) = (sent[i].format = "aggregate")
        /\ sent[i].format = "aggregate" =>
               /\ Len(sent[i].lines) = Len(sent[i].files)
               /\ \A j \in DOMAIN sent[i].files :
                      Cardinality({k \in DOMAIN sent[i].lines :
                          sent[i].lines[k].name = sent[i].files[j].name}) = 1
        /\ Cardinality({j \in DOMAIN sent : sent[j].task = sent[i].task}) = 1

\* C9 (one notification per drain).  A task that resumes after its sleep on
\* a non-empty queue sends exactly one message; the message has the singular
\* format exactly when the batch has one file, and the aggregate format has
\* one line for every file of the batch, saved or failed.
C9_OneNotification ==
    /\ []C9_OneLinePerFile
    /\ [][\A t \in DOMAIN tasks :
            (TaskFire(t) /\ QueueOf(tasks[t].chat_id) # <<>>) =>
                /\ Len(sent') = Len(sent) + 1
                /\ sent'[Len(sent')].files = QueueOf(tasks[t].chat_id)
                /\ SubSeq(sent', 1, Len(sent)) = sent]_vars

\* C9 witness: an aggregate summary of saved and failed files.
C9_Witness ==
    \E i \in DOMAIN sent :
        /\ sent[i].format = "aggregate"
        /\ \E j \in DOMAIN sent[i].files : sent[i].files[j].success
        /\ \E j \in DOMAIN sent[i].files : ~sent[i].files[j].success

\* ------------------------------------------------ feed store claims, limit

\* The results of save_rss_url.
Saved == <<TRUE, "RSS guardado correctamente">>

LimitExceeded == <<FALSE, "Has alcanzado el limite de feeds RSS">>

SaveFailed == <<FALSE, "Error al guardar el RSS">>

\* The feeds of every chat but one.
OtherFeeds(file, chat_id) ==
    [c \in StoreChats \ {chat_id} |-> get_all_rss(file, c)]

\* feeds with the URL of one name replaced and nothing else changed.
Overwritten(feeds, after, name, rss_url) ==
    /\ Len(after) = Len(feeds)
    /\ \A i \in DOMAIN feeds :
           /\ after[i].name = feeds[i].name
           /\ after[i].url = IF feeds[i].name = name
                             THEN rss_url
                             ELSE feeds[i].url

\* A save for a user who has MAX_RSS_FEEDS feeds: a new name is rejected
\* and the file is as before.
RejectsNewName(chat_id, name) ==
    name \notin Keys(get_all_rss(rss_file, chat_id)) =>
        /\ last_call'.ret = LimitExceeded
        /\ rss_file' = rss_file

\* C11 as stated.  With MAX_RSS_FEEDS feeds, a save under a new name is
\* rejected with the limit result and the file is unchanged; a save under
\* a name the user has succeeds, replaces that name's URL only and leaves
\* the count at MAX_RSS_FEEDS.
C11_LimitAtMax ==
    [][\A chat_id \in StoreChats, name \in LimitNames, io \in IoOutcomes :
          (/\ get_rss_count(rss_file, chat_id) = MAX_RSS_FEEDS
           /\ last_call'.op = "save"
           /\ last_call'.chat_id = chat_id
           /\ last_call'.name = name
           /\ SaveRssUrl(chat_id, name, "https://x/rss", io))
          => /\ RejectsNewName(chat_id, name)
             /\ name \in Keys(get_all_rss(rss_file, chat_id)) =>
                    /\ last_call'.ret = Saved
                    /\ Overwritten(get_all_rss(rss_file, chat_id),
                                   get_all_rss(rss_file', chat_id),
                                   name, "https://x/rss")
                    /\ get_rss_count(rss_file', chat_id) = MAX_RSS_FEEDS]_vars

\* C11, amended.  As C11, but the save under a name the user has succeeds
\* when the file is written; when the write fails it returns the write
\* error, never the limit result, and the user's readable feeds are not
\* changed other than by the loss of an unreadable file.
C11_LimitAtMaxWritten ==
    [][\A chat_id \in StoreChats, name \in LimitNames, io \in IoOutcomes :
          (/\ get_rss_count(rss_file, chat_id) = MAX_RSS_FEEDS
           /\ last_call'.op = "save"
           /\ last_call'.chat_id = chat_id
           /\ last_call'.name = name
           /\ SaveRssUrl(chat_id, name, "https://x/rss", io))
          => /\ RejectsNewName(chat_id, name)
             /\ (name \in Keys(get_all_rss(rss_file, chat_id)) /\ io = "ok") =>
                    /\ last_call'.ret = Saved
                    /\ Overwritten(get_all_rss(rss_file, chat_id),
                                   get_all_rss(rss_file', chat_id),
                                   name, "https://x/rss")
                    /\ get_rss_count(rss_file', chat_id) = MAX_RSS_FEEDS
                    /\ OtherFeeds(rss_file', chat_id)
                           = OtherFeeds(rss_file, chat_id)
             /\ (name \in Keys(get_all_rss(rss_file, chat_id)) /\ io # "ok") =>
                    /\ last_call'.ret = SaveFailed
                    /\ rss_file' \in {rss_file, CorruptFile}]_vars

\* The first feed of a user with MAX_RSS_FEEDS feeds was overwritten in
\* its place.
C11_Witness ==
    /\ last_call.op = "save"
    /\ last_call.ret = Saved
    /\ get_rss_count(rss_file, last_call.chat_id) = MAX_RSS_FEEDS
    /\ get_all_rss(rss_file, last_call.chat_id)[1]
           = Entry(last_call.name, last_call.url)

\* C12.  Whatever saves and deletes are made, with or without write
\* failures, no user has more than MAX_RSS_FEEDS feeds.
C12_AtMostMaxFeeds ==
    \A chat_id \in StoreChats :
        /\ get_rss_count(rss_file, chat_id) <= MAX_RSS_FEEDS
        /\ Len(get_all_rss(rss_file, chat_id)) <= MAX_RSS_FEEDS

\* A save was rejected for a user who has MAX_RSS_FEEDS feeds.
C12_Witness ==
    /\ last_call.op = "save"
    /\ last_call.ret = LimitExceeded
    /\ get_rss_count(rss_file, last_call.chat_id) = MAX_RSS_FEEDS

\* ----------------------------------------------- feed store claims, delete

\* The user's record is not in the file: the key is absent.
RecordAbsent(file, chat_id) ==
    /\ file.kind = "json"
    /\ StrOf(chat_id) \notin DOMAIN file.data

\* A true result of delete_rss_url(chat_id, name): the entry was there, it
\* is the only thing removed, and a user left without feeds has no record.
RemovedOnly(chat_id, name) ==
    LET feeds == get_all_rss(rss_file, chat_id)
        after == get_all_rss(rss_file', chat_id)
    IN  /\ name \in Keys(feeds)
        /\ after = SelectSeq(feeds, LAMBDA e : e.name # name)
        /\ Len(after) = Len(feeds) - 1
        /\ OtherFeeds(rss_file', chat_id) = OtherFeeds(rss_file, chat_id)
        /\ Len(feeds) = 1 => RecordAbsent(rss_file', chat_id)
        /\ \A k \in DOMAIN rss_file'.data :
               ~rss_file'.data[k].isstr /\ rss_file'.data[k].feeds # <<>>

\* C13 as stated.  delete_rss_url returns True exactly when the user had
\* the entry; it then removes that entry only, and the record with the
\* last entry; without the entry it returns False and the file is as it
\* was.
C13_Delete ==
    [][\A chat_id \in StoreChats, name \in FeedNames, io \in IoOutcomes :
          (/\ last_call'.op = "delete"
           /\ last_call'.chat_id = chat_id
           /\ last_call'.name = name
           /\ DeleteRssUrl(chat_id, name, io))
          => /\ last_call'.ret[1]
                    <=> name \in Keys(get_all_rss(rss_file, chat_id))
             /\ last_call'.ret[1] => RemovedOnly(chat_id, name)
             /\ name \notin Keys(get_all_rss(rss_file, chat_id))
                    => rss_file' = rss_file]_vars

\* C13, amended.  delete_rss_url returns True exactly when the user had
\* the entry and the file was written; it then removes that entry only,
\* and the record with the last entry.  Without the entry it returns False
\* and the file is as it was.  With the entry and a failed write it
\* returns False, and the file is as it was or unreadable.
C13_DeleteWritten ==
    [][\A chat_id \in StoreChats, name \in FeedNames, io \in IoOutcomes :
          (/\ last_call'.op = "delete"
           /\ last_call'.chat_id = chat_id
           /\ last_call'.name = name
           /\ DeleteRssUrl(chat_id, name, io))
          => /\ last_call'.ret[1]
                    <=> (name \in Keys(get_all_rss(rss_file, chat_id))
                         /\ io = "ok")
             /\ last_call'.ret[1] => RemovedOnly(chat_id, name)
             /\ name \notin Keys(get_all_rss(rss_file, chat_id))
                    => rss_file' = rss_file
             /\ (name \in Keys(get_all_rss(rss_file, chat_id)) /\ io # "ok")
                    => rss_file' \in {rss_file, CorruptFile}]_vars

\* The last feed of a user was deleted while the other user keeps a feed:
\* the user's key is gone from the file.
C13_Witness ==
    /\ last_call.op = "delete"
    /\ last_call.ret[1]
    /\ RecordAbsent(rss_file, last_call.chat_id)
    /\ \E c \in StoreChats : has_rss(rss_file, c)

\* -------------------------------------------- feed store claims, migration

\* The chats whose stored value is a single URL string.
LegacyChats(file) ==
    IF file.kind # "json"
    THEN {}
    ELSE {c \in StoreChats :
              StrOf(c) \in DOMAIN file.data /\ file.data[StrOf(c)].isstr}

\* Every read operation reads a legacy value as {"RSS Feed": url}.
ReadsLegacyAsMapping ==
    \A c \in LegacyChats(rss_file) :
        LET url == rss_file.data[StrOf(c)].url
        IN  /\ load_rss_data(rss_file)[c] = <<Entry("RSS Feed", url)>>
            /\ get_all_rss(rss_file, c) = <<Entry("RSS Feed", url)>>
            /\ get_rss_url(rss_file, c, "RSS Feed") = url
            /\ get_rss_url(rss_file, c, None) = url
            /\ get_rss_count(rss_file, c) = 1
            /\ has_rss(rss_file, c)

\* The URL a chat has under the default label, or None.
DefaultLabelUrl(file, c) == FeedsGet(get_all_rss(file, c), "RSS Feed", None)

C15_LoadErrorIsEmptyStore ==
    rss_file.kind = "corrupt" =>
        /\ load_rss_data(rss_file) = <<>>
        /\ \A c \in StoreChats :
               /\ \A name \in FeedNames \cup {None, "RSS Feed"} :
                      get_rss_url(rss_file, c, name) = None
               /\ get_all_rss(rss_file, c) = <<>>
               /\ get_rss_count(rss_file, c) = 0
               /\ ~has_rss(rss_file, c)

\* A store that held feeds became unreadable by a write that failed, and is
\* read.
C15_Witness ==
    /\ rss_file = CorruptFile
    /\ last_call.op = "save"
    /\ last_call.ret = SaveFailed
    /\ ~last_call.was_empty

\* --------------------------------------- feed store claims, write failures

\* The results the two operations return when no write fails: for a save,
\* success and the limit result; for a delete, True and the False of "no
\* such entry" (as returned on a store without feeds).
SaveResultsWithoutFailure == {Saved, LimitExceeded}

DeleteResultsWithoutFailure ==
    {delete_rss_url(f, c, n, "ok").ret :
         f \in {rss_file, NoFile}, c \in StoreChats, n \in FeedNames}

\* C16 as stated.  A save or delete whose write fails returns a result
\* that no call of the same operation returns without a write failure.
C16_WriteFailureSurfaced ==
    [][\A chat_id \in StoreChats, name \in FeedNames,
          io \in IoOutcomes \ {"ok"} :
          /\ (/\ last_call'.op = "save"
              /\ last_call'.chat_id = chat_id
              /\ last_call'.name = name
              /\ \/ name \in Keys(get_all_rss(rss_file, chat_id))
                 \/ get_rss_count(rss_file, chat_id) < MAX_RSS_FEEDS
              /\ SaveRssUrl(chat_id, name, last_call'.url, io))
             => last_call'.ret \notin SaveResultsWithoutFailure
          /\ (/\ last_call'.op = "delete"
              /\ last_call'.chat_id = chat_id
              /\ last_call'.name = name
              /\ name \in Keys(get_all_rss(rss_file, chat_id))
              /\ DeleteRssUrl(chat_id, name, io))
             => last_call'.ret[1] \notin DeleteResultsWithoutFailure]_vars

\* ---------------------------------------- feed store claims, concurrency

\* The step is a successful call that names the entry (chat_id, name).
CallOn(chat_id, name) ==
    /\ last_call'.chat_id = chat_id
    /\ last_call'.name = name
    /\ last_call'.ret[1]

\* An entry of the persisted mapping changes only by a successful call that
\* names it, or with a file that a failed write left unreadable.
OnlyNamedEntryChanges ==
    \A c \in StoreChats, n \in FeedNames :
        FeedsGet(get_all_rss(rss_file', c), n, None)
            # FeedsGet(get_all_rss(rss_file, c), n, None)
        => CallOn(c, n) \/ rss_file' = CorruptFile

PageBy(by) == view.by = by /\ view.kind = "page"

\* C18 as stated.  Wherever the page total is computed (browse render,
\* toggle re-render, page info) it is max(1, ceil(n / items_per_page)): 1
\* and not 0 when there are no entries.
C18_TotalPages ==
    /\ (PageBy("browse") \/ PageBy("toggle")) =>
           view.p.total_pages = Max(1, CeilDiv(view.p.n, items_per_page))
    /\ view.by = "page_info" =>
           view.total_pages = Max(1, CeilDiv(view.n, items_per_page))

\* The number of pages of n entries, never below one.
TotalPages(n) == Max(1, CeilDiv(n, items_per_page))

\* The global indices on the toggle buttons of a page of n entries.
IndicesOn(n, page) ==
    {b.global_idx : b \in Range(Paginate(Entries(n), page).buttons)}

\* C19.  A rendered page in [0, totalPages) of n entries holds exactly
\* min(items_per_page, n - page * items_per_page) entries: those with the
\* global indices from page * items_per_page on, in fetch order, each
\* button carrying the global index of its entry; and over the pages of
\* these n entries every index 0..n-1 is on exactly one page.
C19_PageContents ==
    (PageBy("browse") /\ view.p.page \in 0..(TotalPages(view.p.n) - 1)) =>
        LET p == view.p
            first == p.page * items_per_page
            count == Min(items_per_page, p.n - first)
        IN  /\ Len(p.buttons) = count
            /\ \A i \in 1..count :
                   /\ p.buttons[i].global_idx = first + (i - 1)
                   /\ p.buttons[i].entry = user_data["rss_entries"][first + i]
            /\ \A idx \in 0..(p.n - 1) :
                   Cardinality({pg \in 0..(TotalPages(p.n) - 1) :
                                    idx \in IndicesOn(p.n, pg)}) = 1
            /\ \A pg \in 0..(TotalPages(p.n) - 1) :
                   IndicesOn(p.n, pg) \subseteq 0..(p.n - 1)

\* A last page that is not full was rendered after the first one.
C19_Witness ==
    /\ PageBy("browse")
    /\ view.gw = "ok"
    /\ view.p.page = TotalPages(view.p.n) - 1
    /\ view.p.page >= 1
    /\ Len(view.p.buttons) \in 1..(items_per_page - 1)

\* C20 as stated.  A page press whose page number is outside
\* [0, totalPages - 1] is clamped into that range: the stored current page
\* and the rendered page are the clamped value and the render shows that
\* page's entries.
C20_Clamped ==
    PageBy("browse") =>
        LET clamped == Min(Max(view.requested, 0), TotalPages(view.p.n) - 1)
        IN  /\ user_data["rss_current_page"] = clamped
            /\ view.p.page = clamped
            /\ view.p.buttons
                   = Paginate(Entries(view.p.n), clamped).buttons

\* ---------------------------------------------------------------------
\* Selection

\* The selection of the session, empty when the session has none.
Selection == DictGet(user_data, "rss_selected", {})

\* The entries of the session, none when the session has none.
SessionEntries == DictGet(user_data, "rss_entries", <<>>)

\* C21: toggling index i changes a selection S exactly in the membership
\* of i, and toggling i twice gives S back. Stated for every selection the
\* session reaches and every index a press can carry, and for the selection
\* a toggle press leaves behind: the pressed index is in it exactly when the
\* press was answered "Selected".
C21_ToggleSelfInverse ==
    /\ \A i \in SessionTokens :
          LET S == Selection
              S1 == toggle_selection(S, i)
          IN  /\ S1 \ {i} = S \ {i}
              /\ (i \in S1) # (i \in S)
              /\ toggle_selection(S1, i) = S
    /\ view.by = "toggle" =>
          /\ Selection = view.selected
          /\ (view.requested \in Selection) = (view.answer = "Selected")

\* A press has removed an index from a selection that keeps another one.
C21_Witness ==
    /\ view.by = "toggle"
    /\ view.answer = "Unselected"
    /\ view.requested \notin Selection
    /\ Selection # {}

\* idx refers to an entry of the list.
RefersToEntry(idx, entries) == 0 <= idx /\ idx < Len(entries)

\* C22: in every state of a session, whatever was opened, navigated to,
\* toggled, cancelled or downloaded before, every selected index refers to
\* an entry of the session: 0 <= index < len(entries).
C22_SelectedInRange ==
    \A idx \in Selection : RefersToEntry(idx, SessionEntries)

\* C23: a toggle press whose index refers to no entry of the session (at or
\* beyond the end of the list, negative, or no list at all) leaves the
\* selection as it was, renders the current page again, and is answered with
\* an error and not with "Selected".
C23_InvalidToggleIgnored ==
    [][\A idx \in SessionTokens, gw \in GatewayOutcomes :
          (Toggle(idx, gw) /\ ~RefersToEntry(idx, SessionEntries)) =>
              /\ DictGet(user_data', "rss_selected", {}) = Selection
              /\ view'.kind = "page"
              /\ view'.answer # "Selected"
              /\ view'.alert]_vars

\* ---------------------------------------------------------------------
\* Bulk download

\* The download loop of the last press ran to its end.
DownloadFinished ==
    view.by = "download" /\ view.kind # "none_selected" /\ view.finished

\* The number of reports about index idx.
Reports(reports, idx) ==
    Cardinality({i \in 1..Len(reports) : reports[i].idx = idx})

C25_SelectionEmptyAfterDownload ==
    /\ [](DownloadFinished => Selection = {})
    /\ [][(Selection = {} /\ DictGet(user_data', "rss_selected", {}) # {}) =>
             \E idx \in SessionTokens, gw \in GatewayOutcomes :
                 Toggle(idx, gw)]_vars

\* A download in which one entry failed and one succeeded has ended, and
\* nothing is selected.
C25_Witness ==
    /\ DownloadFinished
    /\ Len(view.failed) = 1
    /\ Len(view.downloaded) = 1
    /\ "rss_selected" \in DOMAIN user_data
    /\ Selection = {}

\* ---------------------------------------------------------------------
\* End of the session

SessionKeys ==
    {"rss_selected", "rss_entries", "rss_current_page", "rss_feed_title"}

\* The session holds no entries, no current page and no selection.
SessionCleared ==
    /\ "rss_entries" \notin DOMAIN user_data
    /\ "rss_current_page" \notin DOMAIN user_data
    /\ Selection = {}

\* C26: after Cancel the session has none of its fields: entries, current
\* page, selection and feed title are all absent, whatever the session held
\* before, and also when there was no session.
C26_CancelDiscardsAll ==
    [][Cancel => DOMAIN user_data' \cap SessionKeys = {}]_vars

\* Cancel was pressed and has left no field.
C26_Witness ==
    /\ view.by = "cancel"
    /\ DOMAIN user_data \cap SessionKeys = {}

\* C27: the session is cleared also when the user goes back to the main
\* menu and when a download has run to its end: after either event it holds
\* no entries, no current page and no selection.
C27_ClearedOnMenuAndDownload ==
    (view.by = "menu" \/ DownloadFinished) => SessionCleared

\* ---------------------------------------------------------------------
\* Order of the entries

\* The numbers of the sequence increase.
Increasing(idxs) ==
    \A i, j \in 1..Len(idxs) : i < j => idxs[i] < idxs[j]

\* C28: entries are shown and processed in fetch order: a page lists its
\* entries by increasing global index, and a download visits the selected
\* entries, and lists them in downloaded and in failed, by increasing index,
\* whatever the order of the toggle presses was.
C28_FetchOrder ==
    /\ (view.by \in {"browse", "toggle"} /\ view.kind = "page") =>
           /\ Increasing([i \in 1..Len(view.p.buttons) |->
                             view.p.buttons[i].global_idx])
           /\ Increasing([i \in 1..Len(view.p.buttons) |->
                             view.p.buttons[i].entry])
    /\ (view.by = "download" /\ view.kind # "none_selected") =>
           /\ Increasing(view.order)
           /\ Increasing([i \in 1..Len(view.downloaded) |->
                             view.downloaded[i].idx])
           /\ Increasing([i \in 1..Len(view.failed) |-> view.failed[i].idx])

\* ---------------------------------------------------------------------
\* Authorization and errors

\* C29: an event of a user who is not on the allow-list changes no state.
\* Every step of SpecIntruder is such an event (an upload, a setrss, clearrss
\* or browse command, or a browse, page, toggle, cancel or download press):
\* it leaves the batch queues and timers, the feed store and the browse
\* session as they were.
C29_UnauthorizedMutatesNothing ==
    [][UNCHANGED <<batch_queues, batch_tasks, tasks, rss_file, user_data>>]_vars

\* C30: no handler lets an error escape: whatever fails inside it, the
\* handler ends normally with a message or a callback answer.
C30_NoErrorEscapes == ~Raises(view)

\* ---------------------------------------------------------------------
\* Watch folder

\* C31: writers to the watch folder use distinct file names: two different
\* entries that one download reports as downloaded were written to two
\* different paths of the watch folder, so neither overwrote the other.
C31_DistinctPaths ==
    (view.by = "download" /\ view.kind # "none_selected") =>
        \A i, j \in 1..Len(view.downloaded) :
            view.downloaded[i].entry # view.downloaded[j].entry =>
                view.downloaded[i].file_name # view.downloaded[j].file_name

\* ---------------------------------------------------------------------
\* Scope of the store

\* C33: the store is scoped per user: a save or a delete for one user,
\* whether it succeeds or fails, leaves the feeds of every other user as
\* they were.
C33_PerUserScope ==
    [][\A chat_id \in StoreChats :
          (\/ \E name \in FeedNames, rss_url \in FeedUrls, io \in IoOutcomes :
                  SaveRssUrl(chat_id, name, rss_url, io)
           \/ \E name \in FeedNames, io \in IoOutcomes :
                  DeleteRssUrl(chat_id, name, io))
          => OtherFeeds(rss_file', chat_id) = OtherFeeds(rss_file, chat_id)]_vars

\* ---------------------------------------------------------------------
\* Opening and navigating

\* The value of a session key, and whether the session has the key.
Field(ud, k) == <<k \in DOMAIN ud, DictGet(ud, k, None)>>

\* The store has a feed for the browsing user.
HasFeed == get_rss_url(rss_file, BrowseUser, None) # None

\* C32: an open ends in one of three ways: the fetch fails (an error and no
\* entries), the feed is empty, or there is at least one entry. Each of the
\* two failures has its own message, which is not a page, installs no entry
\* list, and leaves the stored entry list and the selection as they were.
C32_FetchOutcomes ==
    [][\A fetch \in {"bozo", "empty"} :
          (HasFeed /\ BrowseOpen(fetch, 0, "ok")) =>
              /\ view' = Message("browse", fetch)
              /\ Message("browse", "bozo") # Message("browse", "empty")
              /\ Field(user_data', "rss_entries") =
                     Field(user_data, "rss_entries")
              /\ Field(user_data', "rss_selected") =
                     Field(user_data, "rss_selected")]_vars

\* The fetch of a re-open failed while the session held entries and a
\* selection.
C32_Witness ==
    /\ view = Message("browse", "bozo")
    /\ SessionEntries # <<>>
    /\ Selection # {}

\* C34: the entry list is fetched at Open only: a page change, a toggle, a
\* page-info press and a download leave the entry list of the session as it
\* was (no step that changes the list is one of them).
C34_EntriesFetchedOnce ==
    [][~(/\ Field(user_data', "rss_entries") # Field(user_data, "rss_entries")
         /\ \/ \E page \in SessionPages, gw \in GatewayOutcomes :
                   BrowsePage(page, gw)
            \/ \E idx \in SessionTokens, gw \in GatewayOutcomes :
                   Toggle(idx, gw)
            \/ PageInfo
            \/ \E gw \in DownloadGateway : Download(gw))]_vars

\* Page 1 of a feed of three entries was asked for, and the session still
\* holds the three entries.
C34_Witness ==
    /\ view.by = "browse"
    /\ view.kind = "page"
    /\ view.requested = 1
    /\ SessionEntries = Entries(3)

\* C35: an open that fetched entries initialises the session: the current
\* page is 0, the entries are the fetched ones and nothing is selected,
\* whatever the session held before.
C35_OpenInitialises ==
    [][\A n \in SessionSizes, gw \in GatewayOutcomes :
          (HasFeed /\ BrowseOpen("ok", n, gw)) =>
              /\ user_data'["rss_current_page"] = 0
              /\ user_data'["rss_entries"] = Entries(n)
              /\ DictGet(user_data', "rss_selected", {}) = {}]_vars

\* C36: the selection is global across pages: a page change changes the
\* current page only, a toggle changes the membership of its index only and
\* not the current page, and every page shows the size of the whole
\* selection and offers the download exactly when something is selected.
C36_SelectionGlobal ==
    /\ [][~(/\ \/ DictGet(user_data', "rss_selected", {}) # Selection
               \/ Field(user_data', "rss_entries") #
                      Field(user_data, "rss_entries")
               \/ Field(user_data', "rss_feed_title") #
                      Field(user_data, "rss_feed_title")
            /\ view'.by = "browse"
            /\ \E page \in SessionPages, gw \in GatewayOutcomes :
                   BrowsePage(page, gw))]_vars
    /\ [][\A idx \in SessionTokens :
             ~(/\ \/ Field(user_data', "rss_current_page") #
                         Field(user_data, "rss_current_page")
                  \/ (DictGet(user_data', "rss_selected", {}) \ Selection)
                     \cup (Selection \ DictGet(user_data', "rss_selected", {}))
                         # {idx}
               /\ view'.by = "toggle"
               /\ \E gw \in GatewayOutcomes : Toggle(idx, gw))]_vars
    /\ []((view.by \in {"browse", "toggle"} /\ view.kind = "page") =>
             /\ view.download.count = Cardinality(Selection)
             /\ view.download.shown = (Selection # {}))

\* A page is shown that has none of the selected entries on it, with the
\* download offered.
C36_Witness ==
    /\ view.by = "browse"
    /\ view.kind = "page"
    /\ view.requested = 1
    /\ view.p.buttons = <<>>
    /\ Cardinality(Selection) = 2
    /\ view.download.shown

\* ---------------------------------------------------------------------
\* Queue and timer

\* The chat has a task that waits for its timeout and is not cancelled.
HasLiveTimer(chat_id) ==
    \E t \in DOMAIN tasks : tasks[t].chat_id = chat_id /\ Live(t)

\* C37: wherever control can pass from one task to another, a chat's queue
\* is non-empty exactly when the chat has a live timer (a task that waits
\* and is not cancelled): no file is queued without a timer that will drain
\* it, and no task resumes after its sleep on an empty queue.
C37_QueueIffTimer ==
    /\ [](\A c \in ALLOWED_CHAT_IDS : (QueueOf(c) # <<>>) = HasLiveTimer(c))
    /\ [][\A t \in DOMAIN tasks :
             TaskFire(t) => QueueOf(tasks[t].chat_id) # <<>>]_vars

\* A chat's timer has fired and its queue is empty while the other chat
\* still has a file queued behind a live timer.
C37_Witness ==
    \E c \in ALLOWED_CHAT_IDS, d \in ALLOWED_CHAT_IDS :
        /\ SentTo(c) # {}
        /\ QueueOf(c) = <<>>
        /\ ~HasLiveTimer(c)
        /\ QueueOf(d) # <<>>
        /\ HasLiveTimer(d)

\* A task of the chat is sending its summary.
Sending(chat_id) ==
    \E t \in DOMAIN tasks : tasks[t].chat_id = chat_id /\ tasks[t].pc = "sending"

\* C38: a summary whose batch has been drained cannot be cancelled. The
\* task that sends is no longer registered and is never asked to cancel; a
\* file recorded while the summary is being sent leaves the message and the
\* sending task as they are, is in no summary yet, goes to the queue and
\* gets a new registered timer of its own.
C38_DrainedNotCancelled ==
    /\ [](\A t \in DOMAIN tasks :
             tasks[t].pc = "sending" =>
                 /\ ~tasks[t].must_cancel
                 /\ DictGet(batch_tasks, tasks[t].chat_id, 0) # t)
    /\ [](\A i \in DOMAIN sent : sent[i].result # "cancelled")
    /\ [][\A c \in ALLOWED_CHAT_IDS :
             (/\ Len(arrivals') = Len(arrivals) + 1
              /\ arrivals'[Len(arrivals')].chat_id = c
              /\ Sending(c))
             => /\ sent' = sent
                /\ \A t \in DOMAIN tasks :
                       tasks[t].pc = "sending" => tasks'[t] = tasks[t]
                /\ SummariesOf(arrivals'[Len(arrivals')]) = {}
                /\ batch_queues'[c] = Append(QueueOf(c), arrivals'[Len(arrivals')])
                /\ batch_tasks'[c] = Len(tasks')
                /\ batch_tasks'[c] \notin DOMAIN tasks
                /\ tasks'[batch_tasks'[c]].pc = "created"
                /\ ~tasks'[batch_tasks'[c]].must_cancel]_vars

\* A file was recorded while the chat's summary was being sent; the send
\* then ended delivered, and the file waits behind its own live timer.
C38_Witness ==
    \E i \in DOMAIN sent :
        /\ sent[i].result = "delivered"
        /\ QueueOf(sent[i].chat_id) # <<>>
        /\ HasLiveTimer(sent[i].chat_id)
        /\ \E f \in Range(QueueOf(sent[i].chat_id)) : f.at >= sent[i].at

\* C39: an upload whose download into the watch folder fails is recorded
\* all the same: it is appended to the chat's queue as a failed file, the
\* registered timer is cancelled and a new one is armed exactly as for a
\* saved file, and the summary of its batch reports it as failed (the error
\* text when it is alone, a line under "Failed Files" otherwise).
C39_FailedUploadRecorded ==
    /\ [][\A c \in ALLOWED_CHAT_IDS :
             (Len(arrivals') = Len(arrivals) + 1 /\ HandleDocument(c, FALSE)) =>
                 /\ DictGet(batch_queues', c, <<>>) =
                        Append(QueueOf(c), TorrentFile(Len(arrivals) + 1,
                                                       FALSE, c, now))
                 /\ c \in DOMAIN batch_tasks =>
                        \/ tasks'[batch_tasks[c]].must_cancel
                        \/ tasks'[batch_tasks[c]].pc = "cancelled"
                 /\ DictGet(batch_tasks', c, 0) = Len(tasks) + 1
                 /\ Len(tasks') = Len(tasks) + 1
                 /\ tasks'[Len(tasks')].pc = "created"
                 /\ ~tasks'[Len(tasks')].must_cancel]_vars
    /\ [](\A i \in DOMAIN sent :
             \A j \in DOMAIN sent[i].files :
                 ~sent[i].files[j].success =>
                     IF Len(sent[i].files) = 1
                     THEN sent[i].format = "single_error"
                     ELSE Cardinality({k \in DOMAIN sent[i].lines :
                              /\ sent[i].lines[k].name = sent[i].files[j].name
                              /\ sent[i].lines[k].section = "failed"}) = 1)

\* A failed upload replaced the timer of a saved one, and their summary has
\* been sent with the failed file under "Failed Files".
C39_Witness ==
    \E i \in DOMAIN sent :
        /\ Len(sent[i].files) = 2
        /\ sent[i].files[1].success
        /\ ~sent[i].files[2].success
        /\ \E k \in DOMAIN sent[i].lines : sent[i].lines[k].section = "failed"

\* ---------------------------------------------------------------------

\* The name ends in ".torrent" whatever the case of its letters.
EndsInTorrent(file_name) ==
    file_name # <<>>
    /\ file_name[Len(file_name)] \in {".torrent", ".TORRENT", ".Torrent"}

\* C40: an upload whose name does not end in .torrent (in any case) is
\* answered with the invalid-file message and changes nothing else: the
\* queue, the registered timer, every task and its deadline, the summaries
\* sent and the files recorded are as before, so the file is in no queue and
\* in no summary and the pending summary is emitted when it would have been.
C40_NonTorrentRejected ==
    [][\A c \in UploadChats, file_name \in UploadNames, success \in BOOLEAN :
          ~(/\ view' # view \/ batchVars' # batchVars
            /\ ~EndsInTorrent(file_name)
            /\ HandleUpload(c, file_name, success)
            /\ ~(/\ view' = Message("handle_document", "invalid_file")
                 /\ batchVars' = batchVars))]_vars

\* A document of another kind was refused while a batch was pending, and the
\* batch has since been sent at its deadline.
C40_Witness ==
    /\ view = Message("handle_document", "invalid_file")
    /\ \E i \in DOMAIN sent :
           /\ sent[i].result = "delivered"
           /\ Len(sent[i].files) = 2
           /\ sent[i].at = sent[i].files[2].at + T

====
